---- MODULE Spec2Model ----
(***************************************************************************)
(* A model of the cloud-saves plugin (src/index.js): the checkpoint        *)
(* lifecycle engine, its single-slot operation lock, the persisted         *)
(* configuration and the autonomous checkpoint scheduler.                  *)
(*                                                                         *)
(* Every `await` of the source is a suspension point: one step of a        *)
(* handler runs from the completion of one awaited call (a git subprocess, *)
(* a configuration read or write) to the start of the next one.  Handlers  *)
(* in flight interleave freely at these points, as they do on the Node.js  *)
(* event loop.                                                             *)
(***************************************************************************)
EXTENDS Naturals, Integers, Sequences, FiniteSets, TLC

\* ---------------------------------------------------------------- bounds

\* Events of one run: requests, timer ticks, user edits, and failures of a
\* subprocess or of a file write ...
MaxOps == 3
\* ... of which requests that write (POST, PUT and DELETE routes).
MaxWrites == 2

\* ------------------------------------------------------------ vocabulary

NULL == "null"

\* RFC 4648 base64url without padding, as Buffer.toString('base64url'):
\* a token is the sequence of the 6-bit values of its characters.
RECURSIVE Base64UrlEncode(_)
Base64UrlEncode(b) ==
    IF Len(b) = 0 THEN << >>
    ELSE IF Len(b) = 1 THEN << b[1] \div 4, (b[1] % 4) * 16 >>
    ELSE IF Len(b) = 2 THEN
        << b[1] \div 4, (b[1] % 4) * 16 + (b[2] \div 16), (b[2] % 16) * 4 >>
    ELSE << b[1] \div 4, (b[1] % 4) * 16 + (b[2] \div 16),
            (b[2] % 16) * 4 + (b[3] \div 64), b[3] % 64 >>
         \o Base64UrlEncode(SubSeq(b, 4, Len(b)))

\* Buffer.from(token, 'base64url'): leftover bits of a short last group are
\* dropped; it never throws.
RECURSIVE Base64UrlDecode(_)
Base64UrlDecode(t) ==
    IF Len(t) < 2 THEN << >>
    ELSE IF Len(t) = 2 THEN << t[1] * 4 + (t[2] \div 16) >>
    ELSE IF Len(t) = 3 THEN
        << t[1] * 4 + (t[2] \div 16), (t[2] % 16) * 16 + (t[3] \div 4) >>
    ELSE << t[1] * 4 + (t[2] \div 16), (t[2] % 16) * 16 + (t[3] \div 4),
            (t[3] % 4) * 64 + t[4] >>
         \o Base64UrlDecode(SubSeq(t, 5, Len(t)))

\* A tag `save_<ts>_<tok>` is the record of its two variable parts. A name
\* of another form is `save_<text>` (ts = 0: no digits follow) or does not
\* start with `save_` at all (ts = -1).
Tag(ts, tok) == [ts |-> ts, tok |-> tok]
NoTag == Tag(0, << >>)
SaveBackup == Tag(0, << 1 >>)
Release == Tag(-1, << 1 >>)

\* tagName.match(/^save_\d+_(.+)$/): digits, and a non-empty token.
TagNameMatch(t) == t.ts > 0 /\ t.tok # << >>
\* git tag -l "save_*"
GlobMatch(t) == t.ts >= 0

\* The name a tag decodes to; the tag string itself when the pattern fails.
RawName == << 0 >>
DecodedName(t) == IF TagNameMatch(t) THEN Base64UrlDecode(t.tok) ELSE RawName

\* Descriptions: what the user typed, nothing, or one of the two defaults.
Desc(k, v) == [k |-> k, v |-> v]
NoDesc == Desc("none", << >>)
UserDesc == Desc("user", << 1 >>)
\* The { name, description } bodies of create and rename requests.
SaveBodies == { [name |-> <<65>>, desc |-> UserDesc],
                [name |-> <<66, 67>>, desc |-> NoDesc] }
\* description || `存档: ${name}`
DescOrDefault(d, name) == IF d = NoDesc THEN Desc("default", name) ELSE d
\* `Overwrite of ${tagName}`
OverwriteDesc(t) == Desc("overwrite", << t.ts >> \o t.tok)

\* An annotated tag: the commit it points at and its message
\* `<desc>\nLast Updated: <upd>`.
TagObj(c, d, u) == [commit |-> c, desc |-> d, upd |-> u]

\* %(subject): the first paragraph of the message on one line, which takes
\* in the `Last Updated:` line (upd = 0: the message has no such line).
Subject(obj) == [text |-> obj.desc, lastUpdated |-> obj.upd]

\* The entries listSaves builds from git tag -l "save_*".
ListedSaves(tags) ==
    { [name |-> DecodedName(t), tag |-> t, description |-> Subject(tags[t])] :
        t \in { x \in DOMAIN tags : GlobMatch(x) } }

\* ---------------------------------------------------------- configuration

DEFAULT_CONFIG ==
    [ is_authorized     |-> FALSE,
      github_token      |-> FALSE,
      last_save         |-> [tag |-> NoTag, ts |-> 0, name |-> << >>,
                             description |-> NoDesc],
      current_save      |-> NoTag,
      has_temp_stash    |-> FALSE,
      autoSaveEnabled   |-> FALSE,
      autoSaveTargetTag |-> NoTag ]

\* The checkpoint that exists when the plugin starts, and a tag that never
\* existed.
T0 == Tag(1, Base64UrlEncode(<<65>>))
Missing == Tag(9, Base64UrlEncode(<<66, 67>>))

\* ----------------------------------------------------------------- state

VARIABLES
    currentOperation,     \* the Operation Lock (index.js:79)
    autoSaveBackendTimer, \* the timer handle (index.js:80), NULL = 0
    liveTimers,           \* interval timers installed and not cleared
    pendingSetups,        \* readConfig().then(...) callbacks not yet run
    cfg,                  \* config.json
    localTags,            \* tags of the managed directory
    remoteTags,           \* tags of origin
    head,                 \* commit HEAD points at
    branchHead,           \* tip of the configured branch
    detached,             \* HEAD is detached
    nCommits,             \* commits created so far
    wd,                   \* uncommitted modifications (a set of edit ids)
    stash,                \* the stash stack, slot 0 first
    h,                    \* the handlers in flight, by request number
    nOps,                 \* events so far
    nWrites,              \* writing requests so far
    now,                  \* the clock, in milliseconds
    last,                 \* the response sent since the last request arrived
    originUrl,            \* `git remote get-url origin` of the managed directory
    runners,              \* the runGitCommand calls in flight
    codec,                \* a name on its way through the Name Codec
    diffRun,              \* a getSaveDiff call on a repository with file trees
    tagMessage,           \* the message of one tag, from creation on
    listRun               \* the output of one `git tag -l` and its parse

timerVars == << autoSaveBackendTimer, liveTimers, pendingSetups >>
gitVars == << localTags, remoteTags, head, branchHead, detached, nCommits, wd, stash >>
counters == << nOps, nWrites >>
\* The state above is the plugin's; the variables below follow single
\* functions of it step by step (runGitCommand, the codec, getSaveDiff, the
\* tag message of an overwrite, the parse of listSaves).
progVars == << currentOperation, timerVars, cfg, gitVars, h, counters, now, last >>
unitVars == << originUrl, runners, codec, diffRun, tagMessage, listRun >>
vars == << progVars, unitVars >>

Rids == 1 .. MaxOps

\* A POST /config body: each field is a value or undefined.
UndefTag == Tag(0, << 0 >>)
Body(auth, enabled, target, badInterval) ==
    [ is_authorized |-> auth, autoSaveEnabled |-> enabled,
      autoSaveTargetTag |-> target, badInterval |-> badInterval ]
NoBody == Body("undefined", "undefined", UndefTag, FALSE)

\* The locals of a handler: its arguments, the await it is suspended at and
\* what it has computed so far.
Idle ==
    [ op |-> "none", pc |-> "idle", tag |-> NoTag, name |-> << >>,
      desc |-> NoDesc, newTag |-> NoTag, commit |-> 0, flag |-> FALSE,
      snap |-> DEFAULT_CONFIG, ref |-> "", body |-> NoBody ]

\* A response: { success, message, ... } with its HTTP status.
Response(op, code, ok, tag, note) ==
    [ op |-> op, code |-> code, ok |-> ok, tag |-> tag, note |-> note,
      saves |-> {} ]

NoResponse == Response("none", 0, TRUE, NoTag, "")

\* A remote URL: its scheme and how many `x-access-token:<token>@` prefixes
\* it carries; the host is github.com.
Url(scheme, creds) == [scheme |-> scheme, creds |-> creds]
NoUrl == Url("none", 0)
HttpsUrl == Url("https", 0)
SshUrl == Url("ssh", 0)

\* No runGitCommand, codec or getSaveDiff call is being followed.
UnitsIdle ==
    /\ originUrl = HttpsUrl
    /\ runners = << >>
    /\ codec = [stage |-> "idle"]
    /\ diffRun = [pc |-> "idle"]
    /\ tagMessage = [stage |-> "idle"]
    /\ listRun = [stage |-> "idle"]

\* The configuration the plugin starts with: authorized, the scheduler on.
StartConfig ==
    [ DEFAULT_CONFIG EXCEPT !.is_authorized = TRUE,
                            !.github_token = TRUE,
                            !.autoSaveEnabled = TRUE,
                            !.autoSaveTargetTag = T0 ]

\* The checkpoints that exist at the start, locally and on the remote.
StartTags == [ t \in {T0} |-> TagObj(1, UserDesc, 1) ]

\* The plugin starts with configuration c, local tags lt, remote tags rt and
\* uncommitted modifications w.
ProgramInitWith(c, lt, rt, w) ==
    /\ currentOperation = NULL
    /\ autoSaveBackendTimer = 0
    /\ liveTimers = {}
    /\ pendingSetups = 1
    /\ cfg = c
    /\ localTags = lt
    /\ remoteTags = rt
    /\ head = 1
    /\ branchHead = 1
    /\ detached = FALSE
    /\ nCommits = 1
    /\ wd = w
    /\ stash = << >>
    /\ h = [ r \in Rids |-> Idle ]
    /\ nOps = 0
    /\ nWrites = 0
    /\ now = 2
    /\ last = NoResponse

ProgramInit == ProgramInitWith(StartConfig, StartTags, StartTags, {})

Init == ProgramInit /\ UnitsIdle

\* ------------------------------------------------------- step vocabulary

\* What a subprocess or a file write may do: succeed, or (while the run has
\* events left) fail.
Outcomes == IF nOps < MaxOps THEN {TRUE, FALSE} ELSE {TRUE}
Charge(ok) == /\ nOps' = IF ok THEN nOps ELSE nOps + 1
              /\ UNCHANGED unitVars

\* `if (currentOperation)` at the top of a route.
Busy == currentOperation # NULL

NeverBusy == FALSE
\* `if (currentOperation)` at the top of performAutoSave.
AutoSaveBusy == currentOperation # NULL

ConfiguredIgnoringEnabled(c) == c.is_authorized /\ c.autoSaveTargetTag # NoTag
\* The condition under which the scheduler runs: authorized, enabled and a
\* non-empty target.
AutoSaveConfigured(c) ==
    c.is_authorized /\ c.autoSaveEnabled /\ c.autoSaveTargetTag # NoTag

\* A new handler starts running: it is request number nOps + 1, and no
\* response has been sent since it arrived.
ReadRoutes == { "list_saves", "get_save_diff", "auto_save", "get_status" }
Admit(rec) == /\ nOps < MaxOps
              /\ rec.op \in ReadRoutes \/ nWrites < MaxWrites
              /\ h' = [h EXCEPT ![nOps + 1] = rec]
              /\ nOps' = nOps + 1
              /\ nWrites' = IF rec.op \in ReadRoutes THEN nWrites ELSE nWrites + 1
              /\ last' = NoResponse
              /\ UNCHANGED unitVars

\* The handler moves on to its next await.
Goto(r, rec) == /\ h' = [h EXCEPT ![r] = rec]
                /\ UNCHANGED << currentOperation, last >>
ReturnKeepingLock(r, resp) == /\ h' = [h EXCEPT ![r] = Idle]
                              /\ last' = resp
                              /\ UNCHANGED currentOperation
\* The handler returns through `finally { currentOperation = null }`.
Return(r, resp) == /\ h' = [h EXCEPT ![r] = Idle]
                   /\ currentOperation' = NULL
                   /\ last' = resp
\* The handler of a route that never takes the lock answers.
Reply(r, resp) == /\ h' = [h EXCEPT ![r] = Idle]
                  /\ last' = resp
                  /\ UNCHANGED currentOperation

At(rec, pc) == [rec EXCEPT !.pc = pc]
OkWithoutNote(rec, note) == Response(rec.op, 200, TRUE, rec.tag, "")
Ok(rec, note) == Response(rec.op, 200, TRUE, rec.tag, note)
FailedAsSuccess(rec, note) == Response(rec.op, 200, TRUE, rec.tag, note)
Failed(rec, note) == Response(rec.op, 200, FALSE, rec.tag, note)
Error500(rec, note) == Response(rec.op, 500, FALSE, rec.tag, note)
\* An exception left the route handler: no response is sent.
Uncaught(rec) == Response(rec.op, 0, FALSE, rec.tag, "uncaught")

\* -------------------------------------------------- what git does

PutTag(tags, t, obj) ==
    [x \in DOMAIN tags \cup {t} |-> IF x = t THEN obj ELSE tags[x]]
KeepTag(tags, t) == tags
DelTag(tags, t) == [x \in DOMAIN tags \ {t} |-> tags[x]]

\* git tag -l "<t>" prints the tag when it exists.
TagListed(ok, t) == ok /\ t \in DOMAIN localTags
\* git tag -a "<t>" (no -f) refuses an existing name.
CanCreateTag(ok, t) == ok /\ t \notin DOMAIN localTags
\* git tag -d "<t>" fails on a missing tag.
CanDeleteTag(ok, t) == ok /\ t \in DOMAIN localTags
\* git push origin "<t>": the local tag must exist; a different remote tag
\* of that name is not overwritten without --force.
CanPushTag(ok, t) ==
    /\ ok
    /\ t \in DOMAIN localTags
    /\ t \in DOMAIN remoteTags => remoteTags[t] = localTags[t]
\* git push origin :refs/tags/<t>: "remote ref does not exist" otherwise.
CanDeleteRemoteTag(ok, t) == ok /\ t \in DOMAIN remoteTags
\* git fetch --tags: new tags arrive; a local tag that differs from the
\* remote one is kept ("would clobber existing tag") and the command fails.
FetchedTags ==
    [x \in DOMAIN localTags \cup DOMAIN remoteTags |->
        IF x \in DOMAIN localTags THEN localTags[x] ELSE remoteTags[x]]
FetchClobbers ==
    \E x \in DOMAIN localTags \cap DOMAIN remoteTags : localTags[x] # remoteTags[x]

\* Frames of the repository variables.
KeepGit == UNCHANGED gitVars
SetLocalTags(new) ==
    /\ localTags' = new
    /\ UNCHANGED << remoteTags, head, branchHead, detached, nCommits, wd, stash >>
SetRemoteTags(new) ==
    /\ remoteTags' = new
    /\ UNCHANGED << localTags, head, branchHead, detached, nCommits, wd, stash >>
\* git commit: a new commit on HEAD (and on the branch HEAD is attached to)
\* holding every modification of the working directory.
Commit ==
    /\ nCommits' = nCommits + 1
    /\ head' = nCommits + 1
    /\ branchHead' = IF detached THEN branchHead ELSE nCommits + 1
    /\ wd' = {}
    /\ UNCHANGED << localTags, remoteTags, detached, stash >>
SetStash(newStash, newWd) ==
    /\ stash' = newStash
    /\ wd' = newWd
    /\ UNCHANGED << localTags, remoteTags, head, branchHead, detached, nCommits >>

KeepEnv == UNCHANGED << timerVars, nWrites, now >>

\* ------------------------------------------------------------ the routes

\* Every lock-checking route: `if (currentOperation) return res.status(409)`.
LockCheckedRoutes ==
    { "list_saves", "create_save", "load_save", "delete_save", "rename_save",
      "get_save_diff", "stash_apply", "stash_discard", "overwrite_save",
      "initialize_repo", "check_update" }

\* The 409 body is the same on every route: it names the operation in
\* flight, not the route that was asked for.
Rejected(route) == Response("rejected", 409, FALSE, NoTag, currentOperation)

RejectBusy ==
    /\ nOps < MaxOps
    /\ Busy
    /\ \E route \in LockCheckedRoutes : last' = Rejected(route)
    /\ nOps' = nOps + 1
    /\ UNCHANGED << currentOperation, timerVars, cfg, gitVars, h, nWrites, now >>
    /\ UNCHANGED unitVars

\* The modifications that exist, uncommitted or stashed; a new one is
\* numbered with the first number not among them.
Modifications == wd \cup UNION { stash[i] : i \in DOMAIN stash }
NewEdit == CHOOSE n \in 1 .. Cardinality(Modifications) + 1 :
               /\ n \notin Modifications
               /\ \A m \in 1 .. n - 1 : m \in Modifications

\* The user changes files of the managed directory.
Edit ==
    /\ nOps < MaxOps
    /\ nOps' = nOps + 1
    /\ wd' = wd \cup {NewEdit}
    /\ UNCHANGED << currentOperation, timerVars, cfg, localTags, remoteTags, head,
                    branchHead, detached, nCommits, stash, h, nWrites, now >>
    /\ last' = NoResponse
    /\ UNCHANGED unitVars

\* router.post('/saves'): the check and createSave's first statement run
\* without a suspension in between.
PostSaves ==
    /\ ~Busy
    /\ \E b \in SaveBodies :
         Admit([Idle EXCEPT !.op = "create_save", !.pc = "readConfig",
                            !.name = b.name, !.desc = b.desc])
    /\ currentOperation' = "create_save"
    /\ UNCHANGED << timerVars, cfg, gitVars, now >>

CreateSave(r) ==
    LET s == h[r] IN
    /\ s.op = "create_save"
    /\ \E ok \in Outcomes :
       /\ Charge(ok)
       /\ \/ /\ s.pc = "readConfig" /\ ok
             /\ Goto(r, [s EXCEPT !.pc = "add", !.snap = cfg,
                                  !.tag = Tag(now, Base64UrlEncode(s.name))])
             /\ now' = now + 1
             /\ UNCHANGED << cfg, gitVars, timerVars, nWrites >>
          \/ /\ s.pc = "add"
             /\ IF ok THEN Goto(r, At(s, "status"))
                      ELSE Return(r, Failed(s, "add"))
             /\ KeepGit /\ KeepEnv /\ UNCHANGED cfg
          \/ /\ s.pc = "status"
             /\ Goto(r, [s EXCEPT !.flag = ok /\ wd # {},
                                  !.pc = IF ok /\ wd # {} THEN "commit" ELSE "tag"])
             /\ KeepGit /\ KeepEnv /\ UNCHANGED cfg
          \/ /\ s.pc = "commit"
             /\ IF ok /\ wd # {}
                   THEN Commit /\ Goto(r, At(s, "tag"))
                   ELSE KeepGit /\ Return(r, Failed(s, "commit"))
             /\ KeepEnv /\ UNCHANGED cfg
          \/ /\ s.pc = "tag"
             /\ IF CanCreateTag(ok, s.tag)
                   THEN /\ SetLocalTags(PutTag(localTags, s.tag,
                                   TagObj(head, DescOrDefault(s.desc, s.name), now)))
                        /\ Goto(r, At(s, "symbolicRef"))
                   ELSE KeepGit /\ Return(r, Failed(s, "tag"))
             /\ KeepEnv /\ UNCHANGED cfg
          \/ /\ s.pc = "symbolicRef"
             /\ Goto(r, At(s, IF ok /\ ~detached /\ s.flag THEN "pushBranch"
                                                          ELSE "pushTag"))
             /\ KeepGit /\ KeepEnv /\ UNCHANGED cfg
          \/ /\ s.pc = "pushBranch"
             /\ Goto(r, At(s, "pushTag"))
             /\ KeepGit /\ KeepEnv /\ UNCHANGED cfg
          \/ /\ s.pc = "pushTag"
             /\ IF CanPushTag(ok, s.tag)
                   THEN /\ SetRemoteTags(PutTag(remoteTags, s.tag, localTags[s.tag]))
                        /\ Goto(r, At(s, "saveConfig"))
                   ELSE KeepGit /\ Return(r, Failed(s, "pushTag"))
             /\ KeepEnv /\ UNCHANGED cfg
          \/ /\ s.pc = "saveConfig"
             /\ IF ok
                   THEN /\ cfg' = [s.snap EXCEPT !.last_save =
                                     [tag |-> s.tag, ts |-> now, name |-> s.name,
                                      description |-> s.desc]]
                        /\ Return(r, Ok(s, ""))
                   ELSE UNCHANGED cfg /\ Return(r, Failed(s, "error"))
             /\ KeepGit /\ KeepEnv

\* The tags a request may name: any tag that exists, or one that does not.
TagArgs == DOMAIN localTags \cup DOMAIN remoteTags \cup {Missing}

\* router.get('/saves'): the check, then a configuration read and two
\* fetches before listSaves takes the lock.
GetSaves ==
    /\ ~Busy
    /\ Admit([Idle EXCEPT !.op = "list_saves", !.pc = "routeReadConfig"])
    /\ UNCHANGED << currentOperation, timerVars, cfg, gitVars, now >>

\* listSaves() is entered: `currentOperation = 'list_saves'`.
EnterListSaves(r, s) ==
    /\ h' = [h EXCEPT ![r] = At(s, "fetch")]
    /\ currentOperation' = "list_saves"
    /\ UNCHANGED last

GetSavesRoute(r) ==
    LET s == h[r] IN
    /\ s.op = "list_saves"
    /\ \E ok \in Outcomes :
       /\ Charge(ok)
       /\ \/ /\ s.pc = "routeReadConfig"
             \* readConfig() is awaited outside the route's try: when it
             \* throws, the handler ends without a response
             /\ IF ~ok THEN Reply(r, Uncaught(s))
                ELSE IF cfg.is_authorized THEN Goto(r, At(s, "routeFetchTags"))
                ELSE EnterListSaves(r, s)
             /\ KeepGit
          \/ /\ s.pc = "routeFetchTags"
             /\ Goto(r, At(s, "routeFetchBranch"))
             /\ IF ok THEN SetLocalTags(FetchedTags) ELSE KeepGit
          \/ /\ s.pc = "routeFetchBranch"
             /\ EnterListSaves(r, s)
             /\ KeepGit
    /\ KeepEnv /\ UNCHANGED cfg

ListSaves(r) ==
    LET s == h[r] IN
    /\ s.op = "list_saves"
    /\ \E ok \in Outcomes :
       /\ Charge(ok)
       /\ \/ /\ s.pc = "fetch"
             /\ IF ok THEN SetLocalTags(FetchedTags) ELSE KeepGit
             /\ IF ok /\ ~FetchClobbers THEN Goto(r, At(s, "tagList"))
                                        ELSE Return(r, Failed(s, "fetch"))
          \/ /\ s.pc = "tagList"
             /\ IF ok THEN Return(r, [Ok(s, "") EXCEPT !.saves = ListedSaves(localTags)])
                      ELSE Return(r, Failed(s, "tagList"))
             /\ KeepGit
    /\ KeepEnv /\ UNCHANGED cfg

\* router.post('/saves/load')
PostLoad ==
    /\ ~Busy
    /\ \E t \in TagArgs :
         Admit([Idle EXCEPT !.op = "load_save", !.pc = "tagList", !.tag = t])
    /\ currentOperation' = "load_save"
    /\ UNCHANGED << timerVars, cfg, gitVars, now >>

\* git stash pop: the top entry returns to the working directory.
StashPop(ok) ==
    IF ok /\ stash # << >> THEN SetStash(Tail(stash), wd \cup Head(stash))
                           ELSE KeepGit

LoadSave(r) ==
    LET s == h[r] IN
    /\ s.op = "load_save"
    /\ \E ok \in Outcomes :
       /\ Charge(ok)
       /\ \/ /\ s.pc = "tagList"
             /\ IF TagListed(ok, s.tag) THEN Goto(r, At(s, "status"))
                                        ELSE Return(r, Failed(s, "notFound"))
             /\ KeepGit /\ UNCHANGED cfg
          \/ /\ s.pc = "status"
             \* statusResult.success && statusResult.stdout.trim() !== ''
             /\ IF ok /\ wd # {}
                   THEN Goto(r, [s EXCEPT !.pc = "stash", !.ref = "hasChanges"])
                   ELSE Goto(r, At(s, "revList"))
             /\ KeepGit /\ UNCHANGED cfg
          \/ /\ s.pc = "stash"
             \* stashCreated = success && !stdout.includes('No local changes')
             /\ Goto(r, [s EXCEPT !.pc = "revList", !.flag = ok /\ wd # {}])
             /\ IF ok /\ wd # {} THEN SetStash(<< wd >> \o stash, {}) ELSE KeepGit
             /\ UNCHANGED cfg
          \/ /\ s.pc = "revList"
             /\ IF ok /\ s.tag \in DOMAIN localTags
                   THEN Goto(r, [s EXCEPT !.pc = "checkout",
                                          !.commit = localTags[s.tag].commit])
                   ELSE IF s.flag THEN Goto(r, At(s, "stashPop"))
                                  ELSE Return(r, Failed(s, "revList"))
             /\ KeepGit /\ UNCHANGED cfg
          \/ /\ s.pc = "checkout"
             /\ IF ok
                   THEN /\ head' = s.commit /\ detached' = TRUE
                        /\ UNCHANGED << localTags, remoteTags, branchHead, nCommits,
                                        wd, stash >>
                        /\ Goto(r, At(s, "readConfig"))
                   ELSE /\ KeepGit
                        /\ IF s.flag THEN Goto(r, At(s, "stashPop"))
                                     ELSE Return(r, Failed(s, "checkout"))
             /\ UNCHANGED cfg
          \/ /\ s.pc = "stashPop"
             /\ StashPop(ok)
             /\ Return(r, Failed(s, "restored"))
             /\ UNCHANGED cfg
          \/ /\ s.pc = "readConfig" /\ ok
             /\ Goto(r, [s EXCEPT !.pc = "saveConfig", !.snap = cfg])
             /\ KeepGit /\ UNCHANGED cfg
          \/ /\ s.pc = "saveConfig"
             /\ IF ok
                   THEN /\ cfg' = [s.snap EXCEPT
                                     !.current_save = s.tag,
                                     !.has_temp_stash = IF s.flag THEN TRUE ELSE @]
                        /\ Return(r, Ok(s, IF s.flag THEN "stashCreated" ELSE ""))
                   ELSE UNCHANGED cfg /\ Return(r, Failed(s, "error"))
             /\ KeepGit
    /\ KeepEnv

\* router.delete('/saves/:tagName')
DeleteSaves ==
    /\ ~Busy
    /\ \E t \in TagArgs :
         Admit([Idle EXCEPT !.op = "delete_save", !.pc = "tagList", !.tag = t])
    /\ currentOperation' = "delete_save"
    /\ UNCHANGED << timerVars, cfg, gitVars, now >>

DeleteSave(r) ==
    LET s == h[r] IN
    /\ s.op = "delete_save"
    /\ \E ok \in Outcomes :
       /\ Charge(ok)
       /\ \/ /\ s.pc = "tagList"
             /\ IF TagListed(ok, s.tag) THEN Goto(r, At(s, "deleteLocal"))
                                        ELSE Return(r, Failed(s, "notFound"))
             /\ KeepGit /\ UNCHANGED cfg
          \/ /\ s.pc = "deleteLocal"
             /\ IF CanDeleteTag(ok, s.tag)
                   THEN /\ SetLocalTags(DelTag(localTags, s.tag))
                        /\ Goto(r, At(s, "deleteRemote"))
                   ELSE KeepGit /\ Return(r, Failed(s, "deleteLocal"))
             /\ UNCHANGED cfg
          \/ /\ s.pc = "deleteRemote"
             /\ IF CanDeleteRemoteTag(ok, s.tag)
                   THEN /\ SetRemoteTags(DelTag(remoteTags, s.tag))
                        /\ Goto(r, At(s, "readConfig"))
                   ELSE KeepGit /\ Return(r, Ok(s, "warning"))
             /\ UNCHANGED cfg
          \/ /\ s.pc = "readConfig" /\ ok
             /\ IF cfg.current_save # NoTag /\ cfg.current_save = s.tag
                   THEN Goto(r, [s EXCEPT !.pc = "saveConfig", !.snap = cfg])
                   ELSE Return(r, Ok(s, ""))
             /\ KeepGit /\ UNCHANGED cfg
          \/ /\ s.pc = "saveConfig"
             /\ IF ok
                   THEN /\ cfg' = [s.snap EXCEPT !.current_save = NoTag]
                        /\ Return(r, Ok(s, ""))
                   ELSE UNCHANGED cfg /\ Return(r, Failed(s, "error"))
             /\ KeepGit
    /\ KeepEnv

\* router.put('/saves/:oldTagName')
PutSaves ==
    /\ ~Busy
    /\ \E t \in TagArgs, b \in SaveBodies :
         Admit([Idle EXCEPT !.op = "rename_save", !.pc = "readConfig",
                            !.tag = t, !.name = b.name, !.desc = b.desc])
    /\ currentOperation' = "rename_save"
    /\ UNCHANGED << timerVars, cfg, gitVars, now >>

RenameSave(r) ==
    LET s == h[r] IN
    /\ s.op = "rename_save"
    /\ \E ok \in Outcomes :
       /\ Charge(ok)
       /\ \/ /\ s.pc = "readConfig" /\ ok
             /\ Goto(r, [s EXCEPT !.pc = "tagList", !.snap = cfg])
             /\ KeepGit /\ UNCHANGED << cfg, now >>
          \/ /\ s.pc = "tagList"
             /\ IF TagListed(ok, s.tag) THEN Goto(r, At(s, "revList"))
                                        ELSE Return(r, Failed(s, "notFound"))
             /\ KeepGit /\ UNCHANGED << cfg, now >>
          \/ /\ s.pc = "revList"
             /\ IF ok /\ s.tag \in DOMAIN localTags
                   THEN IF DecodedName(s.tag) = s.name
                           THEN /\ Goto(r, [s EXCEPT !.pc = "retag",
                                              !.commit = localTags[s.tag].commit])
                                /\ UNCHANGED now
                           ELSE /\ Goto(r, [s EXCEPT !.pc = "tag",
                                              !.commit = localTags[s.tag].commit,
                                              !.newTag = Tag(now, Base64UrlEncode(s.name))])
                                /\ now' = now + 1
                   ELSE Return(r, Failed(s, "revList")) /\ UNCHANGED now
             /\ KeepGit /\ UNCHANGED cfg
          \/ /\ s.pc = "retag"
             \* git tag -a -f: creates the tag or moves the existing one
             /\ IF ok
                   THEN /\ SetLocalTags(PutTag(localTags, s.tag,
                               TagObj(s.commit, DescOrDefault(s.desc, s.name), now)))
                        /\ Goto(r, At(s, "forcePush"))
                   ELSE KeepGit /\ Return(r, Failed(s, "retag"))
             /\ UNCHANGED << cfg, now >>
          \/ /\ s.pc = "forcePush"
             /\ IF ok /\ s.tag \in DOMAIN localTags
                   THEN /\ SetRemoteTags(PutTag(remoteTags, s.tag, localTags[s.tag]))
                        /\ Return(r, Ok(s, "updated"))
                   ELSE KeepGit /\ Return(r, Failed(s, "forcePush"))
             /\ UNCHANGED << cfg, now >>
          \/ /\ s.pc = "tag"
             /\ IF CanCreateTag(ok, s.newTag)
                   THEN /\ SetLocalTags(PutTag(localTags, s.newTag,
                               TagObj(s.commit, DescOrDefault(s.desc, s.name), now)))
                        /\ Goto(r, At(s, "pushTag"))
                   ELSE KeepGit /\ Return(r, Failed(s, "tag"))
             /\ UNCHANGED << cfg, now >>
          \/ /\ s.pc = "pushTag"
             /\ IF CanPushTag(ok, s.newTag)
                   THEN /\ SetRemoteTags(PutTag(remoteTags, s.newTag, localTags[s.newTag]))
                        /\ Goto(r, At(s, "deleteOld"))
                   ELSE KeepGit /\ Goto(r, At(s, "undoTag"))
             /\ UNCHANGED << cfg, now >>
          \/ /\ s.pc = "undoTag"
             /\ IF CanDeleteTag(ok, s.newTag)
                   THEN SetLocalTags(DelTag(localTags, s.newTag)) ELSE KeepGit
             /\ Return(r, Failed(s, "pushTag"))
             /\ UNCHANGED << cfg, now >>
          \/ /\ s.pc = "deleteOld"
             \* the result is not looked at
             /\ IF CanDeleteTag(ok, s.tag)
                   THEN SetLocalTags(DelTag(localTags, s.tag)) ELSE KeepGit
             /\ Goto(r, At(s, "deleteOldRemote"))
             /\ UNCHANGED << cfg, now >>
          \/ /\ s.pc = "deleteOldRemote"
             /\ IF CanDeleteRemoteTag(ok, s.tag)
                   THEN SetRemoteTags(DelTag(remoteTags, s.tag)) ELSE KeepGit
             /\ IF s.snap.current_save # NoTag /\ s.snap.current_save = s.tag
                   THEN Goto(r, At(s, "saveConfig"))
                   ELSE Return(r, Ok(s, "renamed"))
             /\ UNCHANGED << cfg, now >>
          \/ /\ s.pc = "saveConfig"
             /\ IF ok
                   THEN /\ cfg' = [s.snap EXCEPT !.current_save = s.newTag]
                        /\ Return(r, Ok(s, "renamed"))
                   ELSE UNCHANGED cfg /\ Return(r, Failed(s, "error"))
             /\ KeepGit /\ UNCHANGED now
    /\ UNCHANGED << timerVars, nWrites >>

\* router.get('/saves/diff'): ref1 is a tag or the parent `<tag>^` of one,
\* ref2 is HEAD (public/script.js:431-433).
RefForms == { "tag", "parent" }
\* git rev-parse --verify <ref>: the first commit has no parent.
Resolves(ok, t, form) ==
    /\ ok
    /\ t \in DOMAIN localTags
    /\ form = "parent" => localTags[t].commit > 1

GetSavesDiff ==
    /\ ~Busy
    /\ \E t1 \in TagArgs, form \in RefForms :
         Admit([Idle EXCEPT !.op = "get_save_diff", !.pc = "verify1",
                            !.tag = t1, !.ref = form])
    /\ currentOperation' = "get_save_diff"
    /\ UNCHANGED << timerVars, cfg, gitVars, now >>

GetSaveDiff(r) ==
    LET s == h[r] IN
    /\ s.op = "get_save_diff"
    /\ \E ok \in Outcomes :
       /\ Charge(ok)
       /\ \/ /\ s.pc = "verify1"
             /\ IF Resolves(ok, s.tag, s.ref) THEN Goto(r, At(s, "verify2"))
                ELSE IF s.ref = "parent"
                        THEN Goto(r, [s EXCEPT !.pc = "verify2", !.ref = "emptyTree"])
                        ELSE Return(r, Failed(s, "ref1"))
          \/ /\ s.pc = "verify2"
             /\ IF ok /\ head # 0 THEN Goto(r, At(s, "diff"))
                                                 ELSE Return(r, Failed(s, "ref2"))
          \/ /\ s.pc = "diff"
             /\ IF ok THEN Return(r, Ok(s, s.ref))
                ELSE IF s.ref = "emptyTree" THEN Goto(r, At(s, "show"))
                                            ELSE Return(r, Failed(s, "diff"))
          \/ /\ s.pc = "show"
             /\ IF ok THEN Return(r, Ok(s, "show")) ELSE Return(r, Failed(s, "show"))
    /\ KeepGit /\ KeepEnv /\ UNCHANGED cfg

\* router.post('/stash/apply') and router.post('/stash/discard') check the
\* lock and never take it.
PostStash ==
    /\ ~Busy
    /\ \E op \in { "stash_apply", "stash_discard" } :
         Admit([Idle EXCEPT !.op = op, !.pc = "readConfig"])
    /\ UNCHANGED << currentOperation, timerVars, cfg, gitVars, now >>

ApplyTempStash(r) ==
    LET s == h[r] IN
    /\ s.op = "stash_apply"
    /\ \E ok \in Outcomes :
       /\ Charge(ok)
       /\ \/ /\ s.pc = "readConfig" /\ ok
             /\ IF cfg.has_temp_stash
                   THEN Goto(r, [s EXCEPT !.pc = "apply", !.snap = cfg])
                   ELSE Reply(r, Failed(s, "noStash"))
             /\ KeepGit /\ UNCHANGED cfg
          \/ /\ s.pc = "apply"
             \* git stash apply stash@{0}: the entry stays on the stack
             /\ IF ok /\ stash # << >>
                   THEN /\ SetStash(stash, wd \cup Head(stash))
                        /\ Goto(r, At(s, "saveConfig"))
                   ELSE KeepGit /\ Reply(r, Failed(s, "apply"))
             /\ UNCHANGED cfg
          \/ /\ s.pc = "saveConfig"
             /\ IF ok
                   THEN /\ cfg' = [s.snap EXCEPT !.has_temp_stash = FALSE]
                        /\ Reply(r, Ok(s, ""))
                   ELSE UNCHANGED cfg /\ Reply(r, Error500(s, "saveConfig"))
             /\ KeepGit
    /\ KeepEnv

DiscardTempStash(r) ==
    LET s == h[r] IN
    /\ s.op = "stash_discard"
    /\ \E ok \in Outcomes :
       /\ Charge(ok)
       /\ \/ /\ s.pc = "readConfig" /\ ok
             /\ IF cfg.has_temp_stash
                   THEN Goto(r, [s EXCEPT !.pc = "drop", !.snap = cfg])
                   ELSE Reply(r, Failed(s, "noStash"))
             /\ KeepGit /\ UNCHANGED cfg
          \/ /\ s.pc = "drop"
             /\ IF ok /\ stash # << >>
                   THEN /\ SetStash(Tail(stash), wd)
                        /\ Goto(r, At(s, "saveConfig"))
                   ELSE KeepGit /\ Reply(r, Failed(s, "drop"))
             /\ UNCHANGED cfg
          \/ /\ s.pc = "saveConfig"
             /\ IF ok
                   THEN /\ cfg' = [s.snap EXCEPT !.has_temp_stash = FALSE]
                        /\ Reply(r, Ok(s, ""))
                   ELSE UNCHANGED cfg /\ Reply(r, Error500(s, "saveConfig"))
             /\ KeepGit
    /\ KeepEnv

\* router.get('/status'): the lock is not looked at.
GetStatus ==
    /\ Admit([Idle EXCEPT !.op = "get_status", !.pc = "getGitStatus"])
    /\ UNCHANGED << currentOperation, timerVars, cfg, gitVars, now >>

\* The handler of GET /status: getGitStatus (commands that change nothing,
\* taken as one step; it throws when `git status` fails), then
\* checkTempStash.
CheckTempStash(r) ==
    LET s == h[r] IN
    /\ s.op = "get_status"
    /\ \E ok \in Outcomes :
       /\ Charge(ok)
       /\ \/ /\ s.pc = "getGitStatus"
             /\ IF ok THEN Goto(r, At(s, "readConfig"))
                      ELSE Reply(r, Error500(s, "getGitStatus"))
             /\ UNCHANGED cfg
          \/ /\ s.pc = "readConfig" /\ ok
             /\ IF cfg.has_temp_stash
                   THEN Goto(r, [s EXCEPT !.pc = "stashList", !.snap = cfg])
                   ELSE Reply(r, Ok(s, "noRecord"))
             /\ UNCHANGED cfg
          \/ /\ s.pc = "stashList"
             /\ IF ~ok THEN Reply(r, Ok(s, "listFailed"))
                ELSE IF stash = << >> THEN Goto(r, At(s, "saveConfig"))
                ELSE Reply(r, Ok(s, "exists"))
             /\ UNCHANGED cfg
          \/ /\ s.pc = "saveConfig"
             /\ IF ok
                   THEN /\ cfg' = [s.snap EXCEPT !.has_temp_stash = FALSE]
                        /\ Reply(r, Ok(s, "noRecord"))
                   ELSE UNCHANGED cfg /\ Reply(r, Error500(s, "saveConfig"))
    /\ KeepGit /\ KeepEnv

\* router.post('/saves/:tagName/overwrite')
PostOverwrite ==
    /\ ~Busy
    /\ \E t \in TagArgs :
         Admit([Idle EXCEPT !.op = "overwrite_save", !.pc = "readConfig", !.tag = t])
    /\ currentOperation' = "overwrite_save"
    /\ UNCHANGED << timerVars, cfg, gitVars, now >>

\* The body shared by the overwrite route and performAutoSave, from the read
\* of the old description to the creation of the new tag.  A `throw` ends
\* the handler through catch and finally.
OverwriteCore(r, s, ok) ==
    \/ /\ s.pc = "tagInfo"
       /\ Goto(r, [s EXCEPT !.pc = "add",
                            !.desc = IF ok /\ s.tag \in DOMAIN localTags
                                        THEN localTags[s.tag].desc
                                        ELSE OverwriteDesc(s.tag)])
       /\ KeepGit
    \/ /\ s.pc = "add"
       /\ IF ok THEN Goto(r, At(s, "status")) ELSE Return(r, Error500(s, "add"))
       /\ KeepGit
    \/ /\ s.pc = "status"
       /\ Goto(r, [s EXCEPT !.flag = FALSE,
                            !.pc = IF ok /\ wd # {} THEN "commit" ELSE "revParse"])
       /\ KeepGit
    \/ /\ s.pc = "commit"
       /\ IF ok /\ wd # {}
             THEN Commit /\ Goto(r, [s EXCEPT !.pc = "revParse", !.flag = TRUE])
             ELSE KeepGit /\ Return(r, Error500(s, "commit"))
    \/ /\ s.pc = "revParse"
       /\ IF ok
             THEN Goto(r, [s EXCEPT !.commit = head,
                                    !.pc = IF s.flag THEN "pushBranch" ELSE "deleteLocal"])
             ELSE Return(r, Error500(s, "revParse"))
       /\ KeepGit
    \/ /\ s.pc = "pushBranch"
       /\ Goto(r, At(s, "deleteLocal"))
       /\ KeepGit
    \/ /\ s.pc = "deleteLocal"
       /\ IF CanDeleteTag(ok, s.tag)
             THEN SetLocalTags(DelTag(localTags, s.tag)) ELSE KeepGit
       /\ Goto(r, At(s, "deleteRemote"))
    \/ /\ s.pc = "deleteRemote"
       /\ IF CanDeleteRemoteTag(ok, s.tag)
             THEN SetRemoteTags(DelTag(remoteTags, s.tag)) ELSE KeepGit
       /\ Goto(r, At(s, "tag"))
    \/ /\ s.pc = "tag"
       /\ IF CanCreateTag(ok, s.tag)
             THEN /\ SetLocalTags(PutTag(localTags, s.tag, TagObj(s.commit, s.desc, now)))
                  /\ Goto(r, At(s, "pushTag"))
             ELSE KeepGit /\ Return(r, Error500(s, "tag"))
    \/ /\ s.pc = "undoTag"
       /\ IF CanDeleteTag(ok, s.tag)
             THEN SetLocalTags(DelTag(localTags, s.tag)) ELSE KeepGit
       /\ Return(r, Error500(s, "pushTag"))

OverwriteSave(r) ==
    LET s == h[r] IN
    /\ s.op = "overwrite_save"
    /\ \E ok \in Outcomes :
       /\ Charge(ok)
       /\ \/ /\ s.pc = "readConfig" /\ ok
             /\ IF cfg.is_authorized
                   THEN Goto(r, [s EXCEPT !.pc = "tagInfo", !.snap = cfg])
                   ELSE Return(r, Response(s.op, 401, FALSE, s.tag, "unauthorized"))
             /\ KeepGit /\ UNCHANGED cfg
          \/ OverwriteCore(r, s, ok) /\ UNCHANGED cfg
          \/ /\ s.pc = "pushTag"
             /\ IF CanPushTag(ok, s.tag)
                   THEN /\ SetRemoteTags(PutTag(remoteTags, s.tag, localTags[s.tag]))
                        /\ IF s.snap.last_save.tag # NoTag /\ s.snap.last_save.tag = s.tag
                              THEN Goto(r, At(s, "saveConfig"))
                              ELSE Return(r, Ok(s, ""))
                   ELSE KeepGit /\ Goto(r, At(s, "undoTag"))
             /\ UNCHANGED cfg
          \/ /\ s.pc = "saveConfig"
             /\ IF ok
                   THEN /\ cfg' = [s.snap EXCEPT !.last_save =
                                     [tag |-> s.tag, ts |-> now,
                                      name |-> DecodedName(s.tag),
                                      description |-> s.desc]]
                        /\ Return(r, Ok(s, ""))
                   ELSE UNCHANGED cfg /\ Return(r, Error500(s, "saveConfig"))
             /\ KeepGit
    /\ KeepEnv

\* An interval timer fires: performAutoSave up to its first await.
Tick ==
    /\ nOps < MaxOps
    /\ liveTimers # {}
    /\ IF AutoSaveBusy
          THEN /\ nOps' = nOps + 1
               /\ last' = Response("auto_save", 0, FALSE, NoTag, "skipped")
               /\ UNCHANGED << currentOperation, h, nWrites >>
               /\ UNCHANGED unitVars
          ELSE /\ Admit([Idle EXCEPT !.op = "auto_save", !.pc = "readConfig"])
               /\ currentOperation' = "auto_save"
    /\ UNCHANGED << timerVars, cfg, gitVars, now >>

PerformAutoSave(r) ==
    LET s == h[r] IN
    /\ s.op = "auto_save"
    /\ \E ok \in Outcomes :
       /\ Charge(ok)
       /\ \/ /\ s.pc = "readConfig" /\ ok
             /\ IF AutoSaveConfigured(cfg)
                   THEN Goto(r, [s EXCEPT !.pc = "tagInfo", !.snap = cfg,
                                          !.tag = cfg.autoSaveTargetTag])
                   ELSE Return(r, Response(s.op, 0, FALSE, NoTag, "notConfigured"))
             /\ KeepGit
          \/ OverwriteCore(r, s, ok)
          \/ /\ s.pc = "pushTag"
             /\ IF CanPushTag(ok, s.tag)
                   THEN /\ SetRemoteTags(PutTag(remoteTags, s.tag, localTags[s.tag]))
                        /\ Return(r, Ok(s, ""))
                   ELSE KeepGit /\ Goto(r, At(s, "undoTag"))
    /\ KeepEnv /\ UNCHANGED cfg

\* setupBackendAutoSaveTimer(), the synchronous part: the timer in the
\* variable is cleared and a configuration read is started.
SetupBackendAutoSaveTimer ==
    /\ liveTimers' = liveTimers \ {autoSaveBackendTimer}
    /\ autoSaveBackendTimer' = 0
    /\ pendingSetups' = pendingSetups + 1

\* setInterval returns a handle no live timer has.
NewTimer == CHOOSE n \in 1 .. Cardinality(liveTimers) + 1 :
                /\ n \notin liveTimers
                /\ \A m \in 1 .. n - 1 : m \in liveTimers

\* ... and its `.then` callback, when the read resolves.
TimerSetupThen ==
    /\ pendingSetups > 0
    /\ pendingSetups' = pendingSetups - 1
    /\ IF AutoSaveConfigured(cfg)
          THEN /\ autoSaveBackendTimer' = NewTimer
               /\ liveTimers' = liveTimers \cup {NewTimer}
          ELSE UNCHANGED << autoSaveBackendTimer, liveTimers >>
    /\ UNCHANGED << currentOperation, cfg, gitVars, h, counters, now, last >>
    /\ UNCHANGED unitVars

\* router.post('/config'): the bodies the settings page and a logout send.
ConfigBodies ==
    { Body("undefined", "false", UndefTag, FALSE),
      Body("undefined", "true", T0, FALSE),
      Body("undefined", "undefined", NoTag, FALSE),
      Body("false", "undefined", UndefTag, FALSE),
      Body("undefined", "true", UndefTag, TRUE) }

\* "only the fields passed in are updated"
MergeBody(c, b) ==
    [c EXCEPT !.is_authorized = IF b.is_authorized = "undefined" THEN @
                                ELSE b.is_authorized = "true",
              !.autoSaveEnabled = IF b.autoSaveEnabled = "undefined" THEN @
                                  ELSE b.autoSaveEnabled = "true",
              !.autoSaveTargetTag = IF b.autoSaveTargetTag = UndefTag THEN @
                                    ELSE b.autoSaveTargetTag]

PostConfig ==
    /\ \E b \in ConfigBodies :
         Admit([Idle EXCEPT !.op = "save_config", !.pc = "readConfig", !.body = b])
    /\ UNCHANGED << currentOperation, timerVars, cfg, gitVars, now >>

SaveConfigRoute(r) ==
    LET s == h[r] IN
    /\ s.op = "save_config"
    /\ \E ok \in Outcomes :
       /\ Charge(ok)
       /\ \/ /\ s.pc = "readConfig" /\ ok
             /\ IF s.body.badInterval
                   THEN Reply(r, Response(s.op, 400, FALSE, NoTag, "interval"))
                   ELSE Goto(r, [s EXCEPT !.pc = "saveConfig",
                                          !.snap = MergeBody(cfg, s.body)])
             /\ UNCHANGED << cfg, timerVars >>
          \/ /\ s.pc = "saveConfig"
             /\ IF ok
                   THEN /\ cfg' = s.snap
                        /\ SetupBackendAutoSaveTimer
                        /\ Reply(r, Ok(s, ""))
                   ELSE /\ UNCHANGED << cfg, timerVars >>
                        /\ Reply(r, Error500(s, "saveConfig"))
    /\ KeepGit /\ UNCHANGED << nWrites, now >>

\* router.post('/authorize'): no lock check, no lock.
PostAuthorize ==
    /\ Admit([Idle EXCEPT !.op = "authorize", !.pc = "readConfig"])
    /\ UNCHANGED << currentOperation, timerVars, cfg, gitVars, now >>

\* git fetch origin --tags --prune-tags: local tags the remote does not have
\* are removed, new ones arrive, differing ones are kept and reported.
PrunedTags ==
    [x \in DOMAIN remoteTags |->
        IF x \in DOMAIN localTags THEN localTags[x] ELSE remoteTags[x]]

\* HEAD is attached to the configured branch.
CheckoutBranch ==
    /\ head' = branchHead
    /\ detached' = FALSE
    /\ UNCHANGED << localTags, remoteTags, branchHead, nCommits, wd, stash >>
\* git checkout -b: the branch is created at HEAD.
CheckoutNewBranch ==
    /\ branchHead' = head
    /\ detached' = FALSE
    /\ UNCHANGED << localTags, remoteTags, head, nCommits, wd, stash >>

Authorize(r) ==
    LET s == h[r] IN
    /\ s.op = "authorize"
    /\ \E ok \in Outcomes :
       /\ Charge(ok)
       /\ \/ /\ s.pc = "readConfig" /\ ok
             /\ Goto(r, [s EXCEPT !.pc = "isInside",
                                  !.snap = [cfg EXCEPT !.is_authorized = FALSE]])
             /\ KeepGit /\ UNCHANGED << cfg, timerVars >>
          \/ /\ s.pc = "isInside"
             /\ Goto(r, At(s, IF ok THEN "remoteList" ELSE "gitInit"))
             /\ KeepGit /\ UNCHANGED << cfg, timerVars >>
          \/ /\ s.pc = "gitInit"
             /\ IF ok THEN Goto(r, At(s, "remoteList"))
                      ELSE Reply(r, Error500(s, "gitInit"))
             /\ KeepGit /\ UNCHANGED << cfg, timerVars >>
          \/ /\ s.pc = "remoteList"
             /\ Goto(r, At(s, "remoteSet"))
             /\ KeepGit /\ UNCHANGED << cfg, timerVars >>
          \/ /\ s.pc = "remoteSet"
             /\ IF ok THEN Goto(r, At(s, "fetch"))
                      ELSE Reply(r, Error500(s, "remote"))
             /\ KeepGit /\ UNCHANGED << cfg, timerVars >>
          \/ /\ s.pc = "fetch"
             /\ IF ok THEN SetLocalTags(PrunedTags) ELSE KeepGit
             /\ IF ok /\ ~FetchClobbers
                   THEN Goto(r, At(s, "lsRemote"))
                   ELSE Goto(r, [s EXCEPT !.pc = "saveUnauthorized", !.ref = "fetch"])
             /\ UNCHANGED << cfg, timerVars >>
          \/ /\ s.pc = "lsRemote"
             /\ Goto(r, At(s, IF ok THEN "track" ELSE "showRef"))
             /\ KeepGit /\ UNCHANGED << cfg, timerVars >>
          \/ /\ s.pc = "track"
             /\ Goto(r, At(s, "checkout"))
             /\ KeepGit /\ UNCHANGED << cfg, timerVars >>
          \/ /\ s.pc = "checkout"
             /\ IF ok THEN CheckoutBranch /\ Goto(r, At(s, "saveConfig"))
                      ELSE KeepGit /\ Goto(r, At(s, "saveUnauthorized"))
             /\ UNCHANGED << cfg, timerVars >>
          \/ /\ s.pc = "showRef"
             /\ Goto(r, [s EXCEPT !.pc = "checkoutLocal",
                                  !.flag = ok /\ branchHead # 0])
             /\ KeepGit /\ UNCHANGED << cfg, timerVars >>
          \/ /\ s.pc = "checkoutLocal"
             /\ IF ok /\ s.flag /\ branchHead # 0
                   THEN CheckoutBranch /\ Goto(r, At(s, "pushUpstream"))
                ELSE IF ok /\ ~s.flag /\ branchHead = 0
                   THEN CheckoutNewBranch /\ Goto(r, At(s, "pushUpstream"))
                   ELSE KeepGit /\ Goto(r, At(s, "saveUnauthorized"))
             /\ UNCHANGED << cfg, timerVars >>
          \/ /\ s.pc = "pushUpstream"
             /\ Goto(r, At(s, IF ok THEN "saveConfig" ELSE "saveUnauthorized"))
             /\ KeepGit /\ UNCHANGED << cfg, timerVars >>
          \/ /\ s.pc = "saveConfig"
             /\ IF ok
                   THEN /\ cfg' = [s.snap EXCEPT !.is_authorized = TRUE]
                        /\ Reply(r, Ok(s, ""))
                   ELSE /\ UNCHANGED cfg
                        /\ Reply(r, Error500(s, "saveConfig"))
             /\ SetupBackendAutoSaveTimer
             /\ KeepGit
          \/ /\ s.pc = "saveUnauthorized"
             /\ IF ok
                   THEN /\ cfg' = s.snap
                        /\ UNCHANGED timerVars
                        /\ Reply(r, Response(s.op, IF s.ref = "fetch" THEN 400 ELSE 500,
                                              FALSE, NoTag, "unauthorized"))
                   ELSE /\ UNCHANGED cfg
                        /\ SetupBackendAutoSaveTimer
                        /\ Reply(r, Error500(s, "saveConfig"))
             /\ KeepGit
    /\ UNCHANGED << nWrites, now >>

\* router.post('/initialize')
PostInitialize ==
    /\ ~Busy
    /\ Admit([Idle EXCEPT !.op = "initialize_repo", !.pc = "readConfig"])
    /\ currentOperation' = "initialize_repo"
    /\ UNCHANGED << timerVars, cfg, gitVars, now >>

\* fs.rm of the .git directory: every tag, the stash and the history go.
RemoveGitDir ==
    /\ localTags' = [x \in {} |-> TagObj(0, NoDesc, 0)]
    /\ stash' = << >>
    /\ head' = 0
    /\ branchHead' = 0
    /\ detached' = FALSE
    /\ UNCHANGED << remoteTags, nCommits, wd >>

InitializeRepo(r) ==
    LET s == h[r] IN
    /\ s.op = "initialize_repo"
    /\ \E ok \in Outcomes :
       /\ Charge(ok)
       /\ \/ /\ s.pc = "readConfig" /\ ok
             /\ Goto(r, At(s, "rm"))
             /\ KeepGit
          \/ /\ s.pc = "rm"
             /\ IF ok THEN RemoveGitDir ELSE KeepGit
             /\ Goto(r, [s EXCEPT !.pc = "isInside", !.flag = ok])
          \/ /\ s.pc = "isInside"
             \* not inside a work tree once .git is gone
             /\ Goto(r, At(s, IF ok /\ ~s.flag THEN "remoteList" ELSE "gitInit"))
             /\ KeepGit
          \/ /\ s.pc = "gitInit"
             /\ IF ok THEN Goto(r, At(s, "remoteList"))
                      ELSE Return(r, Error500(s, "gitInit"))
             /\ KeepGit
          \/ /\ s.pc = "remoteList"
             /\ Goto(r, At(s, "remoteSet"))
             /\ KeepGit
          \/ /\ s.pc = "remoteSet"
             /\ Return(r, Ok(s, IF ok THEN "" ELSE "warning"))
             /\ KeepGit
    /\ KeepEnv /\ UNCHANGED cfg

\* router.post('/update/check-and-pull'): works on the plugin's own directory.
PostUpdate ==
    /\ ~Busy
    /\ Admit([Idle EXCEPT !.op = "check_update", !.pc = "isRepo"])
    /\ currentOperation' = "check_update"
    /\ UNCHANGED << timerVars, cfg, gitVars, now >>

CheckUpdate(r) ==
    LET s == h[r] IN
    /\ s.op = "check_update"
    /\ \E ok \in Outcomes :
       /\ Charge(ok)
       /\ \/ /\ s.pc = "isRepo"
             /\ IF ok THEN Goto(r, At(s, "remoteUrl"))
                      ELSE Return(r, Ok(s, "not_git_repo"))
          \/ /\ s.pc = "remoteUrl"
             /\ IF ok THEN Goto(r, At(s, "localHead"))
                      ELSE Return(r, Failed(s, "wrong_remote"))
          \/ /\ s.pc = "localHead"
             /\ IF ok THEN Goto(r, At(s, "remoteHead"))
                      ELSE Return(r, Error500(s, "error"))
          \/ /\ s.pc = "remoteHead"
             /\ IF ok THEN \E same \in BOOLEAN :
                             IF same THEN Return(r, Ok(s, "latest"))
                                     ELSE Goto(r, At(s, "pull"))
                      ELSE Return(r, Error500(s, "error"))
          \/ /\ s.pc = "pull"
             /\ IF ok THEN Return(r, Ok(s, "updated"))
                      ELSE Return(r, Failed(s, "pull_failed"))
    /\ KeepGit /\ KeepEnv /\ UNCHANGED cfg

Next ==
    \/ RejectBusy
    \/ Edit
    \/ PostSaves
    \/ \E r \in Rids : CreateSave(r)
    \/ GetSaves
    \/ \E r \in Rids : GetSavesRoute(r)
    \/ \E r \in Rids : ListSaves(r)
    \/ PostLoad
    \/ \E r \in Rids : LoadSave(r)
    \/ DeleteSaves
    \/ \E r \in Rids : DeleteSave(r)
    \/ PutSaves
    \/ \E r \in Rids : RenameSave(r)
    \/ GetSavesDiff
    \/ \E r \in Rids : GetSaveDiff(r)
    \/ PostStash
    \/ \E r \in Rids : ApplyTempStash(r)
    \/ \E r \in Rids : DiscardTempStash(r)
    \/ PostOverwrite
    \/ \E r \in Rids : OverwriteSave(r)
    \/ Tick
    \/ \E r \in Rids : PerformAutoSave(r)
    \/ TimerSetupThen
    \/ PostConfig
    \/ \E r \in Rids : SaveConfigRoute(r)
    \/ PostAuthorize
    \/ \E r \in Rids : Authorize(r)
    \/ PostInitialize
    \/ \E r \in Rids : InitializeRepo(r)
    \/ PostUpdate
    \/ \E r \in Rids : CheckUpdate(r)

Spec == Init /\ [][Next]_vars

\* The continuation of a handler suspended at an await: the event loop runs
\* it once the awaited subprocess or file operation has settled.
Progress ==
    \E r \in Rids :
        \/ CreateSave(r) \/ GetSavesRoute(r) \/ ListSaves(r) \/ LoadSave(r)
        \/ DeleteSave(r) \/ RenameSave(r) \/ GetSaveDiff(r)
        \/ ApplyTempStash(r) \/ DiscardTempStash(r) \/ OverwriteSave(r)
        \/ PerformAutoSave(r) \/ SaveConfigRoute(r) \/ Authorize(r)
        \/ InitializeRepo(r) \/ CheckUpdate(r)

\* Every subprocess terminates (runGitCommand settles on close or error), so
\* a suspended handler is eventually resumed.
FairSpec == Spec /\ WF_vars(Progress)

\* ============================================================ runGitCommand

\* runGitCommand calls followed at once.
MaxRunners == 2
Slots == 1 .. MaxRunners

\* The callers of runGitCommand, by what their route does with the lock
\* before the call: whether it checks it, what it sets it to, the command it
\* runs and where.
Callers ==
    { [route |-> "create_save", checks |-> TRUE, takes |-> "create_save",
       network |-> TRUE, inData |-> TRUE],
      [route |-> "list_saves", checks |-> TRUE, takes |-> NULL,
       network |-> TRUE, inData |-> TRUE],
      [route |-> "authorize", checks |-> FALSE, takes |-> NULL,
       network |-> TRUE, inData |-> TRUE],
      [route |-> "status", checks |-> FALSE, takes |-> NULL,
       network |-> FALSE, inData |-> TRUE],
      [route |-> "check_update", checks |-> TRUE, takes |-> "check_update",
       network |-> TRUE, inData |-> FALSE] }

\* options.input: absent, or data for the child's standard input.
Inputs == { "undefined", "data" }

\* The locals of one call, and what it did: `substituted` (it rewrote the
\* URL), `undone` (no restoring set-url was run, one succeeded, or all that
\* were run failed), `ran` (the command's own outcome). `lost` outlives the
\* call: a substitution made from this slot was never undone.
IdleRunner ==
    [ pc |-> "idle", caller |-> "none", takes |-> NULL, network |-> FALSE,
      inData |-> TRUE, input |-> "undefined", originalRepoUrl |-> NoUrl,
      temporarilySetUrl |-> FALSE, substituted |-> FALSE, undone |-> "no",
      ran |-> "no", result |-> "none", lost |-> FALSE ]

\* originalRepoUrl.replace('https://', `https://x-access-token:${token}@`)
TokenUrl(u) == Url(u.scheme, u.creds + 1)
\* originalRepoUrl.includes('@github.com')
HasCredentials(u) == u.scheme = "ssh" \/ u.creds > 0

\* The guard of the substitution (index.js:141-143).
Substitutes(s, token, u) ==
    /\ s.inData /\ token /\ u # NoUrl /\ u.scheme = "https"
    /\ s.network
    /\ ~HasCredentials(u)

SetRunner(i, rec) == runners' = [runners EXCEPT ![i] = rec]

\* The call has returned or raised: the caller's `finally` releases the lock
\* it took.
Leave(i, s, res) ==
    /\ SetRunner(i, [s EXCEPT !.pc = "idle", !.result = res,
                              !.lost = s.lost \/ (s.substituted /\ s.undone = "failed")])
    /\ currentOperation' = IF s.takes # NULL THEN NULL ELSE currentOperation

FinallySkipsRestore(i, s, res) == Leave(i, s, res)
\* finally (246-256): one more restore when the flag is still set.
Finally(i, s, res) ==
    IF s.temporarilySetUrl /\ s.inData
       THEN /\ SetRunner(i, [s EXCEPT !.pc = "finallyRestore", !.result = res])
            /\ UNCHANGED currentOperation
       ELSE Leave(i, s, res)

\* catch (220-245): restore when the flag is set, then return a failure.
Catch(i, s) ==
    IF s.temporarilySetUrl /\ s.inData
       THEN /\ SetRunner(i, At(s, "catchRestore"))
            /\ UNCHANGED currentOperation
       ELSE Finally(i, s, "fail")

RevertErrorEscapes(i, s) == Leave(i, s, "raised")
\* catch (revertError) at 235: logged, the failure result is still returned.
RevertError(i, s) == Finally(i, s, "fail")

\* A caller starts a call: the route's lock check, the lock it takes.
Call ==
    /\ nOps < MaxOps
    /\ \E c \in Callers, inp \in Inputs, i \in Slots :
         /\ runners[i].pc = "idle"
         /\ \A k \in 1 .. i - 1 : runners[k].pc # "idle"
         /\ c.checks => ~Busy
         /\ SetRunner(i, [IdleRunner EXCEPT
                            !.pc = "readConfig", !.caller = c.route,
                            !.takes = c.takes, !.network = c.network,
                            !.inData = c.inData, !.input = inp,
                            !.lost = runners[i].lost])
         /\ currentOperation' = IF c.takes # NULL THEN c.takes ELSE currentOperation
    /\ nOps' = nOps + 1
    /\ UNCHANGED << timerVars, cfg, gitVars, h, nWrites, now, last >>
    /\ UNCHANGED << originUrl, codec, diffRun, tagMessage, listRun >>

RunGitCommand(i) ==
    LET s == runners[i]
        run == IF s.input = "undefined" THEN "exec" ELSE "spawn" IN
    /\ s.pc # "idle"
    /\ \E ok \in BOOLEAN :
       \/ /\ s.pc = "readConfig"
          /\ IF ok THEN SetRunner(i, At(s, "getUrl")) /\ UNCHANGED currentOperation
                   ELSE Catch(i, s)
          /\ UNCHANGED originUrl
       \/ /\ s.pc = "getUrl"
          \* git remote get-url origin, of the managed directory or of the
          \* plugin's own; it fails when there is no origin
          /\ LET stored == IF s.inData THEN originUrl ELSE HttpsUrl
                 u == IF ok THEN stored ELSE NoUrl
                 t == [s EXCEPT !.originalRepoUrl = u] IN
             SetRunner(i, At(t, IF Substitutes(s, cfg.github_token, u)
                                   THEN "setUrl" ELSE run))
          /\ UNCHANGED << originUrl, currentOperation >>
       \/ /\ s.pc = "setUrl"
          /\ IF ok
                THEN /\ originUrl' = TokenUrl(s.originalRepoUrl)
                     /\ SetRunner(i, [s EXCEPT !.pc = run, !.temporarilySetUrl = TRUE,
                                             !.substituted = TRUE])
                     /\ UNCHANGED currentOperation
                ELSE Catch(i, s) /\ UNCHANGED originUrl
       \/ /\ s.pc = "exec"
          /\ IF ok
                THEN IF s.temporarilySetUrl /\ s.inData
                        THEN /\ SetRunner(i, [s EXCEPT !.pc = "restore", !.ran = "ok"])
                             /\ UNCHANGED currentOperation
                        ELSE Finally(i, [s EXCEPT !.ran = "ok"], "ok")
                ELSE Catch(i, [s EXCEPT !.ran = "fail"])
          /\ UNCHANGED originUrl
       \/ /\ s.pc = "spawn"
          \* close with code 0, close with another code, or 'error'
          /\ \/ ok /\ Finally(i, [s EXCEPT !.ran = "ok"], "ok")
             \/ ok /\ Finally(i, [s EXCEPT !.ran = "fail"], "fail")
             \/ ~ok /\ Catch(i, [s EXCEPT !.ran = "fail"])
          /\ UNCHANGED originUrl
       \/ /\ s.pc = "restore"
          /\ IF ok
                THEN /\ originUrl' = s.originalRepoUrl
                     /\ Finally(i, [s EXCEPT !.temporarilySetUrl = FALSE,
                                             !.undone = "ok"], "ok")
                ELSE Catch(i, [s EXCEPT !.undone = "failed"]) /\ UNCHANGED originUrl
       \/ /\ s.pc = "catchRestore"
          /\ IF ok
                THEN /\ originUrl' = s.originalRepoUrl
                     /\ Finally(i, [s EXCEPT !.temporarilySetUrl = FALSE,
                                             !.undone = "ok"], "fail")
                ELSE RevertError(i, [s EXCEPT !.undone = "failed"])
                     /\ UNCHANGED originUrl
       \/ /\ s.pc = "finallyRestore"
          /\ originUrl' = IF ok THEN s.originalRepoUrl ELSE originUrl
          /\ Leave(i, [s EXCEPT !.undone = IF ok THEN "ok" ELSE "failed"], s.result)
    /\ UNCHANGED << timerVars, cfg, gitVars, h, counters, now, last >>
    /\ UNCHANGED << codec, diffRun, tagMessage, listRun >>

RunInit ==
    /\ \E token \in BOOLEAN :
         ProgramInitWith([StartConfig EXCEPT !.github_token = token],
                         StartTags, StartTags, {})
    /\ originUrl \in { HttpsUrl, SshUrl, NoUrl }
    /\ runners = [ i \in Slots |-> IdleRunner ]
    /\ codec = [stage |-> "idle"]
    /\ diffRun = [pc |-> "idle"]
    /\ tagMessage = [stage |-> "idle"]
    /\ listRun = [stage |-> "idle"]

RunSpec == RunInit /\ [][Call \/ \E i \in Slots : RunGitCommand(i)]_vars

\* =============================================================== Name Codec

\* Longest display name followed, in UTF-16 code units.
MaxNameLen == 3

\* The names followed: strings of '/', 'A', U+00E9, U+4E2D and the two
\* halves of U+1F600 (a high and a low surrogate).
DisplayNames ==
    UNION { [1 .. n -> { 47, 65, 233, 20013, 55357, 56832 }] : n \in 1 .. MaxNameLen }

\* Buffer.from(name, 'latin1').toString('base64url'): the low byte of every
\* code unit.
Latin1EncodedName(name) == Base64UrlEncode([ i \in 1 .. Len(name) |-> name[i] % 256 ])
\* encodedName = Buffer.from(name).toString('base64url'): the string in
\* UTF-8 (a surrogate pair is one code point, an unpaired surrogate becomes
\* U+FFFD), then base64url.
EncodedName(name) ==
    LET IsHigh(u) == u \in 55296 .. 56319
        IsLow(u) == u \in 56320 .. 57343
        Utf8Bytes(cp) ==
            IF cp < 128 THEN << cp >>
            ELSE IF cp < 2048 THEN << 192 + (cp \div 64), 128 + (cp % 64) >>
            ELSE IF cp < 65536
                THEN << 224 + (cp \div 4096), 128 + ((cp \div 64) % 64),
                        128 + (cp % 64) >>
            ELSE << 240 + (cp \div 262144), 128 + ((cp \div 4096) % 64),
                    128 + ((cp \div 64) % 64), 128 + (cp % 64) >>
        RECURSIVE Utf8Encode(_)
        Utf8Encode(s) ==
            IF Len(s) = 0 THEN << >>
            ELSE IF IsHigh(s[1]) /\ Len(s) >= 2 /\ IsLow(s[2])
                THEN Utf8Bytes(65536 + (s[1] - 55296) * 1024 + (s[2] - 56320))
                     \o Utf8Encode(SubSeq(s, 3, Len(s)))
            ELSE IF IsHigh(s[1]) \/ IsLow(s[1])
                THEN Utf8Bytes(65533) \o Utf8Encode(Tail(s))
            ELSE Utf8Bytes(s[1]) \o Utf8Encode(Tail(s))
    IN  Base64UrlEncode(Utf8Encode(name))

\* `save_${Date.now()}_${encodedName}`: the characters after `save_`, as
\* indices into the base64url alphabet ('0'..'9' are 52..61, '_' is 63).
TagText(ts, tok) ==
    LET RECURSIVE Digits(_)
        Digits(n) ==
            IF n < 10 THEN << 52 + n >> ELSE Digits(n \div 10) \o << 52 + (n % 10) >>
    IN  Digits(ts) \o << 63 >> \o tok

\* The name listSaves, renameSave and the overwrite route read out of a tag:
\* tagName.match(/^save_\d+_(.+)$/) (the greedy \d+ takes every leading
\* digit, `_` must follow, the group is the non-empty rest), then
\* Buffer.from(group, 'base64url').toString('utf8') (well-formed sequences
\* give their code points, any other byte gives U+FFFD); the tag name itself
\* when the pattern fails.
NameOfTag(t) ==
    LET RECURSIVE LeadingDigits(_)
        LeadingDigits(x) ==
            IF Len(x) > 0 /\ x[1] \in 52 .. 61 THEN 1 + LeadingDigits(Tail(x)) ELSE 0
        k == LeadingDigits(t)
        matched == k >= 1 /\ Len(t) > k + 1 /\ t[k + 1] = 63
        IsCont(b, i) == i <= Len(b) /\ b[i] \in 128 .. 191
        Cp3(b) == (b[1] - 224) * 4096 + (b[2] - 128) * 64 + (b[3] - 128)
        Cp4(b) == (b[1] - 240) * 262144 + (b[2] - 128) * 4096
                  + (b[3] - 128) * 64 + (b[4] - 128)
        RECURSIVE Utf8Decode(_)
        Utf8Decode(b) ==
            IF Len(b) = 0 THEN << >>
            ELSE IF b[1] < 128 THEN << b[1] >> \o Utf8Decode(Tail(b))
            ELSE IF b[1] \in 194 .. 223 /\ IsCont(b, 2)
                THEN << (b[1] - 192) * 64 + (b[2] - 128) >>
                     \o Utf8Decode(SubSeq(b, 3, Len(b)))
            ELSE IF b[1] \in 224 .. 239 /\ IsCont(b, 2) /\ IsCont(b, 3)
                    /\ Cp3(b) >= 2048 /\ Cp3(b) \notin 55296 .. 57343
                THEN << Cp3(b) >> \o Utf8Decode(SubSeq(b, 4, Len(b)))
            ELSE IF b[1] \in 240 .. 244 /\ IsCont(b, 2) /\ IsCont(b, 3)
                    /\ IsCont(b, 4) /\ Cp4(b) >= 65536 /\ Cp4(b) <= 1114111
                THEN << 55296 + ((Cp4(b) - 65536) \div 1024),
                        56320 + ((Cp4(b) - 65536) % 1024) >>
                     \o Utf8Decode(SubSeq(b, 5, Len(b)))
            ELSE << 65533 >> \o Utf8Decode(Tail(b))
    IN  IF matched THEN Utf8Decode(Base64UrlDecode(SubSeq(t, k + 2, Len(t)))) ELSE t

\* A name is supplied with a request, at some Date.now().
CodecSupply ==
    /\ codec.stage = "idle"
    /\ \E name \in DisplayNames, ts \in { 7, 120 } :
         codec' = [ stage |-> "supplied", name |-> name, ts |-> ts,
                    token |-> << >>, tagName |-> << >>, listed |-> << >> ]
    /\ UNCHANGED << progVars, originUrl, runners, diffRun, tagMessage, listRun >>

\* createSave / renameSave build the tag.
CodecEncode ==
    /\ codec.stage = "supplied"
    /\ codec' = [ codec EXCEPT !.stage = "tagged",
                               !.token = EncodedName(codec.name),
                               !.tagName = TagText(codec.ts, EncodedName(codec.name)) ]
    /\ UNCHANGED << progVars, originUrl, runners, diffRun, tagMessage, listRun >>

\* listSaves reads the name back.
CodecDecode ==
    /\ codec.stage = "tagged"
    /\ codec' = [ codec EXCEPT !.stage = "listed", !.listed = NameOfTag(codec.tagName) ]
    /\ UNCHANGED << progVars, originUrl, runners, diffRun, tagMessage, listRun >>

CodecSpec == Init /\ [][CodecSupply \/ CodecEncode \/ CodecDecode]_vars

\* ===================================================== Interrupted-Work Record

\* The managed directory has uncommitted modifications when the plugin starts.
StashInit == ProgramInitWith(StartConfig, StartTags, StartTags, {1}) /\ UnitsIdle

\* The operations that touch the stash, and the user's edits between them.
StashSpec ==
    /\ StashInit
    /\ [][\/ RejectBusy
          \/ Edit
          \/ PostLoad
          \/ \E r \in Rids : LoadSave(r)
          \/ PostStash
          \/ \E r \in Rids : ApplyTempStash(r)
          \/ \E r \in Rids : DiscardTempStash(r)
          \/ GetStatus
          \/ \E r \in Rids : CheckTempStash(r)]_vars

\* ================================================================ getSaveDiff

\* The files of the two checkpoints followed; a tree gives each file its
\* content, 0 .. MaxVersion (0: the file is absent).
Files == { "a", "b" }
MaxVersion == 2

\* A reference as the route passes it: what it names and its suffix. `first`
\* is the tag of the root commit, `second` the tag of its child, `absent` a
\* name no object has, `emptyTree` the hash 4b825dc6...
Ref(base, suffix) == [base |-> base, suffix |-> suffix]
EmptyTreeRef == Ref("emptyTree", "")
RefArgs ==
    { Ref(b, x) : b \in { "first", "second", "absent" }, x \in { "", "^", "~1" } }
    \cup { EmptyTreeRef }

\* git rev-parse --verify <ref>: a root commit and a tree have no parent.
Resolvable(ref) ==
    \/ ref = EmptyTreeRef
    \/ ref.base = "first" /\ ref.suffix = ""
    \/ ref.base = "second"

\* The tree a resolvable reference stands for.
TreeAt(d, ref) ==
    IF ref.base = "emptyTree" THEN [ f \in Files |-> 0 ]
    ELSE IF ref.base = "first" THEN d.firstTree
    ELSE IF ref.suffix = "" THEN d.secondTree
    ELSE d.firstTree

NeverParentSuffix(ref) == FALSE
\* ref1.endsWith('^') || ref1.endsWith('~1')
EndsWithParentSuffix(ref) == ref.suffix \in { "^", "~1" }

\* The lines of git diff --name-status <from> <to>, parsed.
NameStatus(from, to) ==
    { [status |-> IF from[f] = 0 THEN "A" ELSE IF to[f] = 0 THEN "D" ELSE "M",
       fileName |-> f] : f \in { g \in Files : from[g] # to[g] } }

\* The lines of git show --name-status <ref> (the commit against its parent,
\* a root commit against nothing), every status replaced by 'A'.
ShownAsAdded(d, ref) ==
    LET parent == IF ref.base = "second" /\ ref.suffix = ""
                     THEN d.firstTree ELSE [ f \in Files |-> 0 ]
    IN  { [status |-> "A", fileName |-> e.fileName] :
            e \in NameStatus(parent, TreeAt(d, ref)) }

DiffResult(ok, files, note) == [success |-> ok, changedFiles |-> files, message |-> note]

\* GET /saves/diff?tag1=..&tag2=..
DiffCall ==
    /\ diffRun.pc \in { "idle", "done" }
    /\ ~Busy
    /\ \E r1 \in RefArgs, r2 \in RefArgs \ { EmptyTreeRef } :
         diffRun' = [diffRun EXCEPT !.pc = "verify1", !.tag1 = r1, !.tag2 = r2,
                                    !.ref1 = r1, !.ref2 = r2, !.faults = 0,
                                    !.result = DiffResult(FALSE, {}, "none")]
    /\ currentOperation' = "get_save_diff"
    /\ UNCHANGED << timerVars, cfg, gitVars, h, counters, now, last >>
    /\ UNCHANGED << originUrl, runners, codec, tagMessage, listRun >>

\* One git command of getSaveDiff; `ok` is false when the command fails for
\* a reason of its own (counted in faults). A return goes through the
\* finally, which releases the lock.
DiffStep ==
    LET d == diffRun
        DiffGoto(e, pc) ==
            /\ diffRun' = [e EXCEPT !.pc = pc]
            /\ UNCHANGED currentOperation
        DiffReturn(e, res) ==
            /\ diffRun' = [e EXCEPT !.pc = "done", !.result = res]
            /\ currentOperation' = NULL
    IN
    /\ d.pc \notin { "idle", "done" }
    /\ \E ok \in BOOLEAN :
       LET e == [d EXCEPT !.faults = IF ok THEN @ ELSE 1] IN
       \/ /\ d.pc = "verify1"
          /\ IF ok /\ Resolvable(d.ref1) THEN DiffGoto(e, "verify2")
             ELSE IF d.ref1 = EmptyTreeRef THEN DiffGoto(e, "verify2")
             ELSE IF EndsWithParentSuffix(d.ref1)
                 THEN DiffGoto([e EXCEPT !.ref1 = EmptyTreeRef], "verify2")
             ELSE DiffReturn(e, DiffResult(FALSE, {}, "notFound1"))
       \/ /\ d.pc = "verify2"
          /\ IF ok /\ Resolvable(d.ref2) THEN DiffGoto(e, "diff")
             ELSE DiffReturn(e, DiffResult(FALSE, {}, "notFound2"))
       \/ /\ d.pc = "diff"
          /\ IF ok
                THEN DiffReturn(e, DiffResult(TRUE,
                         NameStatus(TreeAt(d, d.ref1), TreeAt(d, d.ref2)), ""))
             ELSE IF d.ref1 = EmptyTreeRef THEN DiffGoto(e, "show")
             ELSE DiffReturn(e, DiffResult(FALSE, {}, "diffFailed"))
       \/ /\ d.pc = "show"
          /\ IF ok THEN DiffReturn(e, DiffResult(TRUE, ShownAsAdded(d, d.ref2), ""))
                   ELSE DiffReturn(e, DiffResult(FALSE, {}, "showFailed"))
    /\ UNCHANGED << timerVars, cfg, gitVars, h, counters, now, last >>
    /\ UNCHANGED << originUrl, runners, codec, tagMessage, listRun >>

\* Two checkpoints with any content, the second made on top of the first.
DiffInit ==
    /\ ProgramInit
    /\ originUrl = HttpsUrl /\ runners = << >> /\ codec = [stage |-> "idle"]
    /\ tagMessage = [stage |-> "idle"]
    /\ listRun = [stage |-> "idle"]
    /\ \E t1 \in [Files -> 0 .. MaxVersion], t2 \in [Files -> 0 .. MaxVersion] :
         diffRun = [ pc |-> "idle", firstTree |-> t1, secondTree |-> t2,
                     tag1 |-> EmptyTreeRef, tag2 |-> EmptyTreeRef,
                     ref1 |-> EmptyTreeRef, ref2 |-> EmptyTreeRef,
                     faults |-> 0, result |-> DiffResult(FALSE, {}, "none") ]

DiffSpec == DiffInit /\ [][DiffCall \/ DiffStep]_vars

\* ============================================================ create and list

\* A repository without checkpoints and without uncommitted modifications,
\* holding any of the two tags that are not checkpoints.
SavesInit ==
    /\ \E other \in SUBSET { SaveBackup, Release } :
         LET tags == [ t \in other |-> TagObj(1, UserDesc, 0) ] IN
         ProgramInitWith([StartConfig EXCEPT !.autoSaveEnabled = FALSE,
                                             !.autoSaveTargetTag = NoTag],
                         tags, tags, {})
    /\ UnitsIdle

SavesSpec ==
    /\ SavesInit
    /\ [][\/ RejectBusy
          \/ PostSaves
          \/ \E r \in Rids : CreateSave(r)
          \/ GetSaves
          \/ \E r \in Rids : GetSavesRoute(r)
          \/ \E r \in Rids : ListSaves(r)]_vars

\* ============================================================== tag message

\* A message is a sequence of lines and a line a sequence of code points:
\* 97 a letter, 32 a space, 35 `#`; 76 stands for the text `Last Updated: `
\* and is followed by the timestamp, 79 for `Overwrite of <tag>` and 23384
\* for `存档: <name>`.  The empty description is << >>.
MaxLineLen == 2
MaxOverwrites == 3

\* The description of a create request: undefined or empty, one line or two.
Descriptions ==
    LET Line == UNION { [1 .. n -> { 97, 32, 35 }] : n \in 0 .. MaxLineLen } IN
    { << >> } \cup { << l >> : l \in Line \ { << >> } }
              \cup { << l, m >> : l \in Line, m \in Line }

\* What `git tag -a -m <message>` stores: lines that begin with `#` are
\* dropped, trailing spaces are cut, blank lines at both ends go and runs of
\* blank lines shrink to one.
Stripspace(lines) ==
    LET RECURSIVE RTrim(_)
        RTrim(l) == IF l = << >> \/ l[Len(l)] # 32 THEN l
                    ELSE RTrim(SubSeq(l, 1, Len(l) - 1))
        RECURSIVE Squeeze(_)
        Squeeze(ls) ==
            IF ls = << >> THEN << >>
            ELSE IF Head(ls) = << >> /\ (Len(ls) = 1 \/ ls[2] = << >>)
                    THEN Squeeze(Tail(ls))
            ELSE << Head(ls) >> \o Squeeze(Tail(ls))
        RECURSIVE DropBlank(_)
        DropBlank(ls) == IF ls # << >> /\ Head(ls) = << >>
                            THEN DropBlank(Tail(ls)) ELSE ls
        kept == SelectSeq(lines, LAMBDA l : l = << >> \/ l[1] # 35)
        cut == [ i \in 1 .. Len(kept) |-> RTrim(kept[i]) ]
    IN  Squeeze(DropBlank(cut))

\* `${tagMessage}\nLast Updated: ${nowTimestamp}` as git stores it.
FullTagMessage(description, timestamp) ==
    Stripspace(description \o << << 76, timestamp >> >>)

\* stdout.trim().split('\n')[0] of `git tag -l --format="%(contents)"`, or
\* `Overwrite of <tag>` when the command failed or printed nothing.
OriginalDescription(ok, message) ==
    LET RECURSIVE LTrim(_)
        LTrim(l) == IF l = << >> \/ Head(l) # 32 THEN l ELSE LTrim(Tail(l))
        RECURSIVE RTrim(_)
        RTrim(l) == IF l = << >> \/ l[Len(l)] # 32 THEN l
                    ELSE RTrim(SubSeq(l, 1, Len(l) - 1))
        RECURSIVE Lead(_)
        Lead(ls) == IF ls # << >> /\ LTrim(Head(ls)) = << >>
                       THEN Lead(Tail(ls)) ELSE ls
        text == Lead(message)
        alone == \A i \in 2 .. Len(text) : LTrim(text[i]) = << >>
    IN  IF ok /\ text # << >>
           THEN IF alone THEN RTrim(LTrim(Head(text))) ELSE LTrim(Head(text))
           ELSE << 79 >>

\* createSave tags the commit.
MessageCreate ==
    /\ tagMessage.stage = "idle"
    /\ \E description \in Descriptions :
         LET stored == FullTagMessage(IF description = << >> THEN << << 23384 >> >>
                                                            ELSE description, 1)
         IN  tagMessage' = [ stage |-> "created", given |-> description,
                             first |-> Head(stored), message |-> stored,
                             timestamp |-> 1, overwrites |-> 0, read |-> TRUE,
                             by |-> "create_save", default |-> FALSE ]
    /\ UNCHANGED << progVars, originUrl, runners, codec, diffRun, listRun >>

\* The overwrite route or performAutoSave reads the message, deletes the tag
\* and creates it again.
MessageOverwrite ==
    /\ tagMessage.stage # "idle"
    /\ tagMessage.overwrites < MaxOverwrites
    /\ \E ok \in BOOLEAN, by \in { "overwrite_save", "auto_save" } :
         LET originalDescription == OriginalDescription(ok, tagMessage.message)
             nowTimestampOverwrite == tagMessage.timestamp + 1
         IN  tagMessage' =
               [ tagMessage EXCEPT
                   !.stage = "overwritten",
                   !.message = FullTagMessage(<< originalDescription >>,
                                              nowTimestampOverwrite),
                   !.timestamp = nowTimestampOverwrite,
                   !.overwrites = @ + 1,
                   !.read = @ /\ ok,
                   !.by = by,
                   !.default = ~ok ]
    /\ UNCHANGED << progVars, originUrl, runners, codec, diffRun, listRun >>

MessageSpec == Init /\ [][MessageCreate \/ MessageOverwrite]_vars

\* ======================================================== parse of listSaves

\* One line of the output of `git tag -l --format=...`, split at the NUL
\* characters: `parts`.  parts[2] is %(creatordate:iso), 0 when git prints
\* nothing there (a tag object without a tagger line), a time otherwise.
\* The value is the entry built (kind "save"), "null" for a skipped line, or
\* "RangeError" when new Date(parts[1]).toISOString() throws on an invalid
\* date.
ParseLine(parts) ==
    LET Value(kind, name, tag, createdAt, creator) ==
            [ kind |-> kind, name |-> name, tag |-> tag,
              createdAt |-> createdAt, creator |-> creator ]
    IN  IF Len(parts) < 5 THEN Value("null", << >>, NoTag, 0, "")
        ELSE IF parts[2] = 0 THEN Value("RangeError", << >>, NoTag, 0, "")
        ELSE Value("save", DecodedName(parts[1]), parts[1], parts[2],
                   IF parts[3] = "" THEN "unknown" ELSE parts[3])

\* listSaves is called on a repository holding some of these tags: two
\* checkpoints of the plugin (a message of two lines and of three), a
\* lightweight tag with a one-character token, save_backup, a checkpoint of
\* another clone, and a tag object without a tagger line.
ListCall ==
    /\ listRun.stage = "idle"
    /\ LET Entry(t, date, tagger, more) ==
               [ tag |-> t, date |-> date, tagger |-> tagger, more |-> more ]
           pool == { Entry(Tag(1, Base64UrlEncode(<< 65 >>)), 1, "user", 1),
                     Entry(Tag(2, Base64UrlEncode(<< 66, 67 >>)), 2, "user", 2),
                     Entry(Tag(3, << 5 >>), 3, "", 0),
                     Entry(SaveBackup, 4, "", 0),
                     Entry(Tag(5, Base64UrlEncode(<< 65 >>)), 5, "other", 1),
                     Entry(Tag(6, Base64UrlEncode(<< 66 >>)), 0, "", 0) }
       IN  \E tags \in SUBSET pool :
             listRun' = [ stage |-> "fetch", tags |-> tags, fetched |-> FALSE,
                          enumerated |-> FALSE, stdout |-> << >>,
                          result |-> [success |-> FALSE, saves |-> {}] ]
    /\ UNCHANGED << progVars, originUrl, runners, codec, diffRun, tagMessage >>

\* listSaves, from one await to the next: the fetch, the enumeration (one
\* line of five fields per tag and one more line per further line of its
\* message), and the parse inside the try block.
ListStep ==
    /\ \E ok \in BOOLEAN :
         LET l == listRun
             RECURSIVE Lines(_)
             Lines(tags) ==
                 IF tags = {} THEN << >>
                 ELSE LET e == CHOOSE x \in tags : \A y \in tags : y.tag.ts <= x.tag.ts
                      IN  << << e.tag, e.date, e.tagger, "subject", "contents" >> >>
                          \o [ i \in 1 .. e.more |-> << "contents" >> ]
                          \o Lines(tags \ {e})
             parsed == { ParseLine(l.stdout[i]) : i \in DOMAIN l.stdout }
         IN
         \/ /\ l.stage = "fetch"
            /\ listRun' = [ l EXCEPT !.stage = IF ok THEN "tagList" ELSE "done",
                                     !.fetched = ok ]
         \/ /\ l.stage = "tagList"
            /\ listRun' = [ l EXCEPT !.stage = IF ok THEN "parse" ELSE "done",
                                     !.enumerated = ok,
                                     !.stdout = IF ok THEN Lines(l.tags) ELSE << >> ]
         \/ /\ l.stage = "parse" /\ ok
            /\ listRun' = [ l EXCEPT !.stage = "done",
                                     !.result =
                                        IF \E p \in parsed : p.kind = "RangeError"
                                           THEN [success |-> FALSE, saves |-> {}]
                                           ELSE [success |-> TRUE,
                                                 saves |-> { p \in parsed :
                                                               p.kind = "save" }] ]
    /\ UNCHANGED << progVars, originUrl, runners, codec, diffRun, tagMessage >>

ListSpec == Init /\ [][ListCall \/ ListStep]_vars

\* ------------------------------------------------- delete, then list
\* Only deleteSave and the list route run, on the repository whose one
\* checkpoint exists locally and on the remote: a tag that is missing
\* locally has been removed by deleteSave.
DeleteListSpec ==
    /\ Init
    /\ [][\/ RejectBusy
          \/ DeleteSaves
          \/ \E r \in Rids : DeleteSave(r)
          \/ GetSaves
          \/ \E r \in Rids : GetSavesRoute(r)
          \/ \E r \in Rids : ListSaves(r)]_vars

\* ------------------------------------------- delete or rename, then a tick
\* Only deleteSave, renameSave and the scheduler run, on the repository
\* whose one checkpoint is the auto-save target.
RetargetSpec ==
    /\ Init
    /\ [][\/ RejectBusy
          \/ DeleteSaves
          \/ \E r \in Rids : DeleteSave(r)
          \/ PutSaves
          \/ \E r \in Rids : RenameSave(r)
          \/ TimerSetupThen
          \/ Tick
          \/ \E r \in Rids : PerformAutoSave(r)]_vars

\* ================================================================ claims

\* Handler r leaves with this step.
Finishes(r) == h[r].op # "none" /\ h'[r].op = "none"
\* Handler r is admitted with this step.
Starts(r) == h[r].op = "none" /\ h'[r].op # "none"
\* Handler r is waiting for a git command (and not for config.json).
AwaitsGit(s) == s.op # "none" /\ s.pc \notin { "routeReadConfig", "readConfig", "saveConfig" }

Mutating ==
    { "create_save", "list_saves", "load_save", "delete_save", "rename_save",
      "overwrite_save", "get_save_diff", "initialize_repo", "stash_apply",
      "stash_discard", "auto_save" }
LockTakers ==
    { "create_save", "list_saves", "load_save", "delete_save", "rename_save",
      "get_save_diff", "overwrite_save", "initialize_repo", "check_update",
      "auto_save" }

\* C1: at most one of create / list / load / delete / rename / overwrite /
\* diff / initialize / stash-apply / stash-discard / auto-save is between its
\* first and its last git command.
C1_MutualExclusion ==
    Cardinality({ r \in Rids : h[r].op \in Mutating /\ AwaitsGit(h[r]) }) <= 1

\* C2: createSave is never executing for two requests at the same time.
C2_CreatesNeverOverlap ==
    Cardinality({ r \in Rids : h[r].op = "create_save" }) <= 1

\* C3: every operation that sets currentOperation leaves it null when it
\* finishes, on every exit path; and whenever the lock is held, the operation
\* it names is still running; and, as every subprocess terminates, a held lock
\* is eventually released: the system never stays busy forever. (A list
\* request that ends at the route's configuration read has not entered
\* listSaves and has not set the lock.)
C3_LockAlwaysReleased ==
    /\ [][\A r \in Rids :
            (Finishes(r) /\ h[r].op \in LockTakers /\ h[r].pc # "routeReadConfig")
            => currentOperation' = NULL]_vars
    /\ [](currentOperation # NULL =>
            \E r \in Rids : /\ h[r].op = currentOperation
                            /\ h[r].op \in LockTakers
                            /\ h[r].pc # "routeReadConfig")
    /\ (currentOperation # NULL) ~> (currentOperation = NULL)
C3_Witness ==
    /\ last.op = "overwrite_save" /\ last.code = 500 /\ last.note = "pushTag"
    /\ currentOperation = NULL

\* C4: when an overwrite of `tag` (manual or automatic) that has deleted the
\* old tag finishes, a tag with the identity `tag` exists at the commit the
\* overwrite resolved, and no tag of another identity was created.
C4_OverwriteKeepsIdentity ==
    [][\A r \in Rids :
         ( /\ Finishes(r)
           /\ h[r].op \in { "overwrite_save", "auto_save" }
           /\ h[r].pc \in { "tag", "pushTag", "undoTag", "saveConfig" } )
         => /\ h[r].tag \in DOMAIN localTags'
            /\ localTags'[h[r].tag].commit = h[r].commit
            /\ DOMAIN localTags' \subseteq DOMAIN localTags \cup { h[r].tag }]_vars

\* C5: when deleteSave(tag) has deleted the tag and finishes, the pointer is
\* null if it referenced `tag`, and unchanged otherwise.
C5_DeleteClearsPointer ==
    [][\A r \in Rids :
         ( /\ Finishes(r)
           /\ h[r].op = "delete_save"
           /\ h[r].pc \in { "deleteRemote", "readConfig", "saveConfig" } )
         => IF cfg.current_save = h[r].tag
               THEN cfg'.current_save = NoTag
               ELSE cfg'.current_save = cfg.current_save]_vars

\* C6: when a rename reports success, then with the same name the identity
\* is still oldTag and no other tag was made; with a different name a tag of
\* a new identity exists at the same commit and oldTag no longer exists.
C6_RenameIdentity ==
    [][\A r \in Rids :
         (Finishes(r) /\ h[r].op = "rename_save" /\ last'.ok)
         => IF DecodedName(h[r].tag) = h[r].name
               THEN /\ h[r].tag \in DOMAIN localTags'
                    /\ h[r].newTag = NoTag
               ELSE /\ h[r].newTag # h[r].tag
                    /\ h[r].newTag \in DOMAIN localTags'
                    /\ localTags'[h[r].newTag].commit = h[r].commit
                    /\ h[r].tag \notin DOMAIN localTags'
                    /\ h[r].tag \notin DOMAIN remoteTags']_vars

\* C7: when a load that found uncommitted modifications reports success,
\* has_temp_stash is true and the stash holds a record to apply.
C7_DirtyLoadStashes ==
    [][\A r \in Rids :
         ( /\ Finishes(r)
           /\ h[r].op = "load_save"
           /\ last'.ok
           /\ h[r].ref = "hasChanges" )
         => cfg'.has_temp_stash /\ stash' # << >>]_vars

\* C8: a tick goes on to the overwrite only if the configuration it reads
\* has is_authorized, autoSaveEnabled and a non-empty autoSaveTargetTag;
\* otherwise it ends at once, with the repository and the configuration
\* untouched.  No git command of a tick runs before that read.
C8_TickOverwritesOnlyWhenConfigured ==
    [][\A r \in Rids :
         /\ ( /\ h[r].op = "auto_save" /\ h[r].pc = "readConfig" /\ h'[r] # h[r]
              /\ ~(cfg.is_authorized /\ cfg.autoSaveEnabled
                                     /\ cfg.autoSaveTargetTag # NoTag) )
            => /\ h'[r].op = "none"
               /\ currentOperation' = NULL
               /\ UNCHANGED << gitVars, cfg >>
         /\ (h[r].op = "auto_save" /\ h[r].pc = "readConfig" /\ h'[r] # h[r])
            => UNCHANGED gitVars
         /\ (h'[r].op = "auto_save" /\ h'[r].pc # "readConfig")
            => /\ h'[r].snap.is_authorized
               /\ h'[r].snap.autoSaveEnabled
               /\ h'[r].snap.autoSaveTargetTag # NoTag
               /\ h'[r].tag = h'[r].snap.autoSaveTargetTag]_vars
C8_Witness ==
    /\ last.op = "auto_save" /\ last.note = "notConfigured"
    /\ liveTimers # {}
    /\ ~cfg.is_authorized

\* C9: while currentOperation is non-null no auto-save starts, and a tick
\* that is skipped changes neither the lock, nor the repository, nor the
\* configuration, nor the handlers or timers; while an auto-save holds the
\* lock no lock-checking request is admitted.
C9_TickSkipsWhenBusy ==
    [][/\ currentOperation # NULL
          => \A r \in Rids : Starts(r) => h'[r].op # "auto_save"
       /\ ( /\ currentOperation # NULL
            /\ nOps' = nOps + 1 /\ h' = h
            /\ last'.op = "auto_save" )
          => UNCHANGED << currentOperation, gitVars, cfg, timerVars >>
       /\ currentOperation = "auto_save"
          => \A r \in Rids : Starts(r) => h'[r].op \notin LockCheckedRoutes]_vars
C9_Witness ==
    /\ last.op = "auto_save" /\ last.note = "skipped"
    /\ currentOperation = "auto_save"

\* C10: at most one interval timer is live, and a live timer is the one
\* held in autoSaveBackendTimer.
C10_SingleTimer ==
    /\ Cardinality(liveTimers) <= 1
    /\ liveTimers \subseteq { autoSaveBackendTimer }

\* A call returns with this step.
Returns(i) == runners[i].pc # "idle" /\ runners'[i].pc = "idle"

\* C11: runGitCommand never raises: whatever fails (the configuration read,
\* the URL lookup, the substitution, the spawn, the command, a restoration),
\* the call ends with a result object, and the result says success only
\* when the command itself succeeded.
C11_RunGitCommandNeverRaises ==
    \A i \in DOMAIN runners :
        /\ runners[i].result \in { "none", "ok", "fail" }
        /\ runners[i].result = "ok" => runners[i].ran = "ok"
\* A call whose command failed and whose two restorations failed as well
\* has returned a failure result.
C11_Witness ==
    \E i \in DOMAIN runners :
        /\ runners[i].pc = "idle" /\ runners[i].result = "fail"
        /\ runners[i].ran = "fail" /\ runners[i].lost

C19_SubstitutionIsCritical ==
    /\ Cardinality({ i \in DOMAIN runners :
                       runners[i].pc # "idle" /\ runners[i].temporarilySetUrl }) <= 1
    /\ \A i \in DOMAIN runners :
          runners[i].pc # "idle" => runners[i].originalRepoUrl.creds = 0

\* A string without unpaired surrogates.
WellFormed(name) ==
    LET RECURSIVE Paired(_)
        Paired(s) ==
            IF Len(s) = 0 THEN TRUE
            ELSE IF s[1] \in 55296 .. 56319
                THEN Len(s) >= 2 /\ s[2] \in 56320 .. 57343
                     /\ Paired(SubSeq(s, 3, Len(s)))
            ELSE s[1] \notin 56320 .. 57343 /\ Paired(Tail(s))
    IN  Paired(name)

C14_AtMostOneRecord == Len(stash) <= 1

\* C15: when every git command behaves as the repository dictates,
\* getSaveDiff(ref, ref) of a resolvable reference succeeds with no changed
\* file; an unresolvable ref1 ending in ^ or ~1 is compared as the empty
\* tree, so every file of ref2 is listed with status 'A'; an unresolvable
\* ref1 without such a suffix, or an unresolvable ref2, gives a not-found
\* failure.
C15_DiffSpecialCases ==
    LET d == diffRun IN
    (d.pc = "done" /\ d.faults = 0) =>
        /\ (d.tag1 = d.tag2 /\ Resolvable(d.tag1))
           => d.result.success /\ d.result.changedFiles = {}
        /\ (~Resolvable(d.tag1) /\ d.tag1.suffix \in { "^", "~1" }
              /\ Resolvable(d.tag2))
           => /\ d.result.success
              /\ d.result.changedFiles =
                   { [status |-> "A", fileName |-> f] :
                       f \in { g \in Files : TreeAt(d, d.tag2)[g] # 0 } }
        /\ (~Resolvable(d.tag1) /\ d.tag1.suffix = "")
           => ~d.result.success /\ d.result.message = "notFound1"
        /\ (~Resolvable(d.tag2) /\ (Resolvable(d.tag1) \/ d.tag1.suffix # ""))
           => ~d.result.success /\ d.result.message = "notFound2"
\* The first checkpoint, holding two files, was compared with its missing
\* parent and both files came back as added.
C15_Witness ==
    /\ diffRun.pc = "done" /\ diffRun.faults = 0
    /\ diffRun.tag1 = Ref("first", "^") /\ diffRun.tag2 = Ref("first", "")
    /\ diffRun.result.success
    /\ diffRun.result.changedFiles = { [status |-> "A", fileName |-> f] : f \in Files }

\* A description listed as it was given.
Plain(d) == [text |-> d, lastUpdated |-> 0]

\* C16: starting without checkpoints and without pending changes, after a
\* successful createSave(name, description) a successful listSaves returns
\* exactly one entry, whose name is the supplied name and whose description
\* is the supplied description (or the default one).
C16_CreatedSaveIsListed ==
    (/\ last.op = "list_saves" /\ last.ok
     /\ cfg.last_save.tag # NoTag
     /\ DOMAIN localTags = { cfg.last_save.tag })
    => last.saves =
         { [name |-> cfg.last_save.name, tag |-> cfg.last_save.tag,
            description |-> Plain(DescOrDefault(cfg.last_save.description,
                                                cfg.last_save.name))] }

\* C17: every route answers with a structured { success, message } body: no
\* handler ends with an exception instead of a response.
C17_EveryRouteAnswers == last.note # "uncaught"

\* C18: listSaves returns only tags of the form save_<digits>_<token>.
C18_OnlyCheckpointsListed ==
    (last.op = "list_saves" /\ last.ok) =>
        \A e \in last.saves : TagNameMatch(e.tag)

\* C20: createSave reports success only from its last step, which it
\* reaches only after its own push of the new tag put the tag on the
\* remote, and only that step records the tag in config.last_save; a
\* createSave that reports failure leaves last_save as it was, and the step
\* after the branch push is the tag push whatever the branch push did.
C20_SuccessMeansTagPushed ==
    [][\A r \in Rids :
         (h[r].op = "create_save" /\ h'[r] # h[r]) =>
            /\ (Finishes(r) /\ last'.ok)
               => /\ h[r].pc = "saveConfig"
                  /\ cfg'.last_save.tag = h[r].tag
            /\ ~(Finishes(r) /\ last'.ok) => cfg'.last_save = cfg.last_save
            /\ h'[r].pc = "saveConfig"
               => /\ h[r].pc = "pushTag"
                  /\ h[r].tag \in DOMAIN remoteTags'
                  /\ remoteTags'[h[r].tag] = localTags[h[r].tag]
            /\ h[r].pc = "pushBranch" => h'[r].pc = "pushTag"]_vars
\* A createSave that committed has answered success: its tag is on the
\* remote and in last_save.
C20_Witness ==
    /\ last.op = "create_save" /\ last.ok
    /\ cfg.last_save.tag = last.tag
    /\ last.tag \in DOMAIN remoteTags
    /\ nCommits > 1

\* C21: createSave, the manual overwrite and performAutoSave leave
\* config.current_save exactly as it was, in every step they take.
C21_CurrentSaveFrame ==
    [][\A r \in Rids :
         (h[r].op \in { "create_save", "overwrite_save", "auto_save" } /\ h'[r] # h[r])
         => cfg'.current_save = cfg.current_save]_vars

\* C22: deleteSave of a missing tag, or with a failed local deletion, ends
\* in failure with no tag removed; the local deletion removes the local tag
\* only; a failed remote deletion ends in success with the warning and
\* touches no tag, so the local deletion is not rolled back.
C22_DeleteOutcomes ==
    [][\A r \in Rids :
         (h[r].op = "delete_save" /\ h'[r] # h[r]) =>
            LET s == h[r]
                kept == localTags' = localTags /\ remoteTags' = remoteTags
            IN
            /\ (s.pc = "tagList" /\ s.tag \notin DOMAIN localTags)
               => Finishes(r) /\ ~last'.ok
            /\ (s.pc \in { "tagList", "deleteLocal" } /\ Finishes(r))
               => ~last'.ok /\ kept
            /\ (s.pc = "deleteLocal" /\ ~Finishes(r))
               => /\ s.tag \notin DOMAIN localTags'
                  /\ remoteTags' = remoteTags
            /\ (s.pc = "deleteRemote" /\ Finishes(r))
               => last'.ok /\ last'.note = "warning" /\ kept
            /\ remoteTags' # remoteTags => s.pc = "deleteRemote"]_vars
\* A delete answered success with the warning: the tag is gone locally and
\* still on the remote.
C22_Witness ==
    /\ last.op = "delete_save" /\ last.ok /\ last.note = "warning"
    /\ last.tag \notin DOMAIN localTags
    /\ last.tag \in DOMAIN remoteTags


\* C23: in a rename to a different name the handler removes the old tag,
\* locally or on the remote, only in its cleanup steps, which it enters only
\* from a successful push of the new tag; a failed creation or push of the new
\* tag ends in failure with the old tag as it was on both sides, and the new
\* tag is gone locally whenever the deletion that follows the failed push
\* succeeded; the cleanup deletes never end the handler in failure.
C23_RenameOrdering ==
    [][\A r \in Rids :
         (h[r].op = "rename_save" /\ h'[r] # h[r]) =>
            LET s == h[r]
                Same(old, new) ==
                    /\ (s.tag \in DOMAIN old) = (s.tag \in DOMAIN new)
                    /\ s.tag \in DOMAIN old => new[s.tag] = old[s.tag]
            IN
            /\ s.pc \notin { "retag", "forcePush", "deleteOld" }
               => Same(localTags, localTags')
            /\ s.pc \notin { "forcePush", "deleteOldRemote" }
               => Same(remoteTags, remoteTags')
            /\ (h'[r].pc = "deleteOld" /\ s.pc # "deleteOld")
               => /\ s.pc = "pushTag"
                  /\ s.newTag \in DOMAIN localTags'
                  /\ s.newTag \in DOMAIN remoteTags'
            /\ (h'[r].pc = "deleteOldRemote" /\ s.pc # "deleteOldRemote")
               => s.pc = "deleteOld"
            /\ (s.pc = "tag" /\ Finishes(r))
               => ~last'.ok /\ s.newTag \notin DOMAIN localTags'
            /\ s.pc = "undoTag"
               => /\ Finishes(r) /\ ~last'.ok
                  /\ nOps' = nOps => s.newTag \notin DOMAIN localTags'
            /\ s.pc = "deleteOld" => ~Finishes(r)
            /\ (s.pc = "deleteOldRemote" /\ Finishes(r)) => last'.ok]_vars
C23_Witness ==
    /\ last.op = "rename_save" /\ ~last.ok /\ last.note = "pushTag"
    /\ last.tag \in DOMAIN localTags
    /\ last.tag \in DOMAIN remoteTags
    /\ \A t \in DOMAIN localTags : t \in DOMAIN remoteTags

\* C23 as stated: after a failed push of the new tag no new tag remains
\* locally.
C23_NoNewTagRemains ==
    [][\A r \in Rids :
         (h[r].op = "rename_save" /\ h[r].pc = "undoTag" /\ h'[r] # h[r])
         => h[r].newTag \notin DOMAIN localTags']_vars


\* C24: after any number of overwrites that could read the message, manual
\* or autonomous, the tag message is the first line the tag had when it was
\* created followed by one `Last Updated:` line, the only such line of the
\* message; `Overwrite of <tag>` is used only when the message could not be
\* read.
C24_OverwriteKeepsDescription ==
    tagMessage.stage = "overwritten" =>
       LET m == tagMessage.message IN
       /\ tagMessage.read =>
             /\ m = << tagMessage.first, << 76, tagMessage.timestamp >> >>
             /\ Cardinality({ i \in DOMAIN m : m[i] # << >> /\ m[i][1] = 76 }) = 1
       /\ tagMessage.default => ~tagMessage.read


\* C25: a manual overwrite of a tag that ends in success has rewritten
\* config.last_save when config.last_save.tag was that tag and has left it
\* as it was otherwise; no step of performAutoSave changes config.json.
C25_LastSaveFrame ==
    [][\A r \in Rids :
         LET s == h[r] IN
         /\ (s.op = "overwrite_save" /\ Finishes(r) /\ last'.ok) =>
               IF cfg.last_save.tag # NoTag /\ cfg.last_save.tag = s.tag
                  THEN /\ cfg'.last_save.tag = s.tag
                       /\ cfg'.last_save.ts = now
                       /\ cfg'.last_save.description = s.desc
                  ELSE cfg'.last_save = cfg.last_save
         /\ (s.op = "auto_save" /\ h'[r] # s) => cfg' = cfg]_vars


\* C26: when the push of the new tag fails, the overwrite (manual or
\* autonomous) pushes nothing, runs the deletion of the local tag and ends in
\* failure; whenever that deletion succeeded the tag is gone locally, so the
\* local tag does not point at the new commit while the remote lacks it.
C26_FailedPushUndone ==
    [][\A r \in Rids :
         (h[r].op \in { "overwrite_save", "auto_save" } /\ h'[r] # h[r]) =>
            LET s == h[r] IN
            /\ (s.pc = "pushTag" /\ h'[r].pc = "undoTag")
               => localTags' = localTags /\ remoteTags' = remoteTags
            /\ (s.pc = "pushTag" /\ h'[r].pc # "undoTag")
               => /\ Finishes(r) => last'.ok
                  /\ s.tag \in DOMAIN remoteTags'
                  /\ remoteTags'[s.tag] = localTags'[s.tag]
            /\ h'[r].pc = "undoTag" => s.pc = "pushTag"
            /\ s.pc = "undoTag"
               => /\ Finishes(r) /\ ~last'.ok
                  /\ remoteTags' = remoteTags
                  /\ nOps' = nOps => s.tag \notin DOMAIN localTags']_vars
C26_Witness ==
    /\ last.op \in { "overwrite_save", "auto_save" }
    /\ ~last.ok /\ last.note = "pushTag"
    /\ last.tag \notin DOMAIN localTags
    /\ last.tag \notin DOMAIN remoteTags

\* C26 as stated: after an overwrite that failed at its tag push the local
\* tag never points at the new commit while the remote lacks it.
C26_NeverDangling ==
    [][\A r \in Rids :
         (h[r].op \in { "overwrite_save", "auto_save" } /\ h[r].pc = "undoTag"
            /\ h'[r] # h[r])
         => ~ /\ h[r].tag \in DOMAIN localTags'
              /\ localTags'[h[r].tag].commit = h[r].commit
              /\ h[r].tag \notin DOMAIN remoteTags']_vars


\* C27: the step of loadSave that reports success is the one that writes
\* current_save = the requested tag, and no other step of loadSave changes
\* config.json; a missing tag ends it in failure; a failed rev-list or
\* checkout ends it in failure, directly when this load created no stash and
\* through a `git stash pop` when it did.
C27_LoadPointer ==
    [][\A r \in Rids :
         (h[r].op = "load_save" /\ h'[r] # h[r]) =>
            LET s == h[r] IN
            /\ IF Finishes(r) /\ last'.ok
                  THEN s.pc = "saveConfig" /\ cfg'.current_save = s.tag
                  ELSE cfg' = cfg
            /\ (s.pc = "tagList" /\ s.tag \notin DOMAIN localTags)
               => Finishes(r) /\ ~last'.ok
            /\ (s.pc \in { "revList", "checkout" } /\ Finishes(r))
               => ~last'.ok /\ ~s.flag
            /\ (s.pc \in { "revList", "checkout" } /\ s.flag)
               => h'[r].pc \in { "checkout", "readConfig", "stashPop" }
            /\ s.pc = "stashPop"
               => /\ Finishes(r) /\ ~last'.ok
                  /\ nOps' = nOps => (stash' = Tail(stash) /\ wd' = wd \cup Head(stash))]_vars
C27_Witness ==
    /\ last.op = "load_save" /\ ~last.ok /\ last.note = "restored"
    /\ cfg.current_save = NoTag /\ ~cfg.has_temp_stash
    /\ stash = << >> /\ wd # {}


\* C28: applyTempStash and discardTempStash that read has_temp_stash = false
\* end in failure and change nothing; otherwise they apply or drop stash@{0},
\* a failed git command ends them in failure with config.json as it was, and
\* has_temp_stash is written (to false) only by the step that follows a
\* successful git command.
C28_StashFlag ==
    [][\A r \in Rids :
         (h[r].op \in { "stash_apply", "stash_discard" } /\ h'[r] # h[r]) =>
            LET s == h[r] IN
            /\ (s.pc = "readConfig" /\ ~cfg.has_temp_stash)
               => /\ Finishes(r) /\ ~last'.ok
                  /\ cfg' = cfg /\ stash' = stash /\ wd' = wd
            /\ (s.pc = "readConfig" /\ cfg.has_temp_stash)
               => /\ h'[r].pc = IF s.op = "stash_apply" THEN "apply" ELSE "drop"
                  /\ cfg' = cfg /\ stash' = stash /\ wd' = wd
            /\ (s.pc \in { "apply", "drop" } /\ Finishes(r))
               => /\ ~last'.ok
                  /\ cfg' = cfg /\ stash' = stash /\ wd' = wd
            /\ (s.pc = "apply" /\ ~Finishes(r))
               => /\ h'[r].pc = "saveConfig" /\ cfg' = cfg
                  /\ stash' = stash /\ wd' = wd \cup Head(stash)
            /\ (s.pc = "drop" /\ ~Finishes(r))
               => /\ h'[r].pc = "saveConfig" /\ cfg' = cfg
                  /\ stash' = Tail(stash) /\ wd' = wd
            /\ cfg' # cfg
               => /\ s.pc = "saveConfig" /\ last'.ok
                  /\ ~cfg'.has_temp_stash]_vars
C28_Witness ==
    /\ last.op \in { "stash_apply", "stash_discard" }
    /\ ~last.ok /\ last.note \in { "apply", "drop" }
    /\ cfg.has_temp_stash /\ stash # << >>


\* C29: checkTempStash that read has_temp_stash = true and finds the stash
\* list empty writes has_temp_stash = false and reports no record; when the
\* list command fails or the stack is not empty it answers in that step and
\* config.json stays as it is; it writes config.json in no other case.
C29_CheckTempStash ==
    [][\A r \in Rids :
         (h[r].op = "get_status" /\ h'[r] # h[r]) =>
            LET s == h[r] IN
            /\ (s.pc = "stashList" /\ nOps' = nOps /\ stash = << >>)
               => h'[r].pc = "saveConfig" /\ cfg' = cfg
            /\ (s.pc = "stashList" /\ (nOps' # nOps \/ stash # << >>))
               => /\ Finishes(r) /\ cfg' = cfg
                  /\ last'.note = IF nOps' # nOps THEN "listFailed" ELSE "exists"
            /\ (s.pc = "saveConfig" /\ nOps' = nOps)
               => /\ Finishes(r) /\ last'.ok /\ last'.note = "noRecord"
                  /\ ~cfg'.has_temp_stash
            /\ h'[r].pc = "saveConfig" => (s.snap.has_temp_stash /\ stash = << >>)
            /\ cfg' # cfg => s.pc = "saveConfig"
            /\ stash' = stash /\ wd' = wd]_vars
C29_Witness ==
    /\ last.op = "get_status" /\ last.note = "noRecord"
    /\ ~cfg.has_temp_stash /\ stash = << >>
    /\ \E r \in Rids : h[r].op = "stash_discard" /\ h[r].pc = "saveConfig"


\* C30: listSaves fails only when the tag fetch or the enumeration failed;
\* otherwise it returns success with an entry for every tag whose line can
\* be parsed, whatever the other lines are.
C30_ListingSurvivesBadEntry ==
    listRun.stage = "done" =>
       /\ listRun.result.success = (listRun.fetched /\ listRun.enumerated)
       /\ listRun.result.success =>
             \A e \in listRun.tags :
                e.date # 0 => \E s \in listRun.result.saves : s.tag = e.tag

\* C31: once a save-config or authorize request has answered, no handler is
\* running and no configuration read of setupBackendAutoSaveTimer is
\* pending, a timer is installed exactly when the persisted configuration
\* is authorized, enabled and names a target.
C31_ScheduleFollowsConfig ==
    ( /\ last.op \in { "save_config", "authorize" }
      /\ \A r \in Rids : h[r].op = "none"
      /\ pendingSetups = 0 )
    => (autoSaveBackendTimer # 0 <=> AutoSaveConfigured(cfg))

\* Handler state s belongs to a lock-taking operation that has set
\* currentOperation (a list request sets it only on entering listSaves).
Acquired(s) ==
    /\ s.op \in LockTakers
    /\ s.pc \notin { "routeReadConfig", "routeFetchTags", "routeFetchBranch" }

\* C32: a lock-taking operation that has set currentOperation and has not
\* left yet finds its own name in currentOperation in every state; no step
\* writes another name into currentOperation while such an operation is
\* running, and no step of one handler nulls currentOperation while another
\* handler that set it is still running.
C32_LockOwnership ==
    /\ [](\A r \in Rids : Acquired(h[r]) => currentOperation = h[r].op)
    /\ [][\A r \in Rids :
            (Acquired(h[r]) /\ h'[r] = h[r])
            => /\ currentOperation' \in { currentOperation, NULL }
               /\ currentOperation # NULL => currentOperation' # NULL]_vars

\* C33: the first request ever admitted is a manual overwrite or an
\* auto-save of the checkpoint that exists locally and on the remote, and
\* nothing has failed before; when it ends in failure, the tag still exists
\* locally or on the remote.
C33_FailedOverwriteKeepsTag ==
    [][( /\ Finishes(1)
         /\ h[1].op \in { "overwrite_save", "auto_save" }
         /\ h[1].tag = T0
         /\ nOps = 1
         /\ ~last'.ok )
       => T0 \in DOMAIN localTags' \cup DOMAIN remoteTags']_vars

\* C34: when the last request answered is a successful save-config, no step
\* of a createSave, renameSave, loadSave, deleteSave or manual overwrite
\* changes the fields save-config wrote (is_authorized, autoSaveEnabled,
\* autoSaveTargetTag): the operation's write-back keeps the saved settings.
C34_SavedConfigSurvives ==
    [][\A r \in Rids :
         ( /\ h[r].op \in { "create_save", "rename_save", "load_save",
                            "delete_save", "overwrite_save" }
           /\ h'[r] # h[r]
           /\ last.op = "save_config" /\ last.ok )
         => /\ cfg'.is_authorized = cfg.is_authorized
            /\ cfg'.autoSaveEnabled = cfg.autoSaveEnabled
            /\ cfg'.autoSaveTargetTag = cfg.autoSaveTargetTag]_vars

\* C35: when only deletes and list requests run, a checkpoint that is gone
\* locally with no delete in flight has been deleted by a deleteSave that
\* returned success (with or without warning); no step of a list request
\* makes it exist locally again, and no list returned contains it.
C35_DeletedStaysDeleted ==
    [][\A r \in Rids :
         ( /\ h[r].op = "list_saves" /\ h'[r] # h[r]
           /\ \A q \in Rids \ {r} : h[q].op = "none"
           /\ T0 \notin DOMAIN localTags )
         => /\ T0 \notin DOMAIN localTags'
            /\ (Finishes(r) /\ last'.ok) => \A e \in last'.saves : e.tag # T0]_vars

\* C36: when only deletes, renames and the scheduler run, the second request
\* is an auto-save, nothing has failed, and the auto-save found no tag of
\* the target's name when it read the description (so the first request
\* was a deleteSave of the target or its rename to a new identity), the
\* auto-save creates no tag: it changes neither the local nor the remote tags.
C36_TickNeedsExistingTag ==
    [][( /\ h[2].op = "auto_save" /\ h'[2] # h[2]
         /\ nOps = 2
         /\ h[2].pc \in { "tag", "pushTag" }
         /\ h[2].desc = OverwriteDesc(h[2].tag) )
       => /\ h[2].tag \notin DOMAIN localTags'
          /\ h[2].tag \notin DOMAIN remoteTags']_vars

\* C37: in every state with no operation in flight, config.current_save is
\* null or names a tag that exists locally.
C37_PointerValid ==
    (\A r \in Rids : h[r].op = "none")
    => (cfg.current_save = NoTag \/ cfg.current_save \in DOMAIN localTags)

\* C38: the first request ever admitted is a createSave whose tag push
\* fails, or a same-name renameSave whose force-push fails, and nothing
\* failed before; it reports failure and the local tags are what they were
\* when it started: no new tag, and the old annotation.
C38_FailureLeavesLocalTags ==
    [][( /\ Finishes(1)
         /\ \/ h[1].op = "create_save" /\ h[1].pc = "pushTag"
            \/ h[1].op = "rename_save" /\ h[1].pc = "forcePush"
         /\ nOps = 1
         /\ ~last'.ok )
       => localTags' = StartTags]_vars

\* C39: the first request ever admitted is a loadSave, so every stash entry
\* is one it created and nothing has been applied or discarded; when it
\* ends at its first failure (or without one), or after a failed checkout
\* or rev-list through `git stash pop`, has_temp_stash is true exactly when
\* the stash stack holds an entry.
C39_FlagMatchesStash ==
    [][( /\ Finishes(1)
         /\ h[1].op = "load_save"
         /\ nOps = 1 \/ (nOps = 2 /\ h[1].pc = "stashPop") )
       => (cfg'.has_temp_stash <=> stash' # << >>)]_vars

\* C40: the authorize handler is never waiting for one of its git commands
\* while an operation that holds the lock (create, list, load, delete,
\* rename, diff, overwrite, initialize, update check, auto-save) is waiting
\* for one of its own, whichever of the two started first.
C40_AuthorizeSerialized ==
    \A r, q \in Rids :
        ~( /\ h[r].op = "authorize" /\ AwaitsGit(h[r])
           /\ Acquired(h[q]) /\ AwaitsGit(h[q]) )
====
